---- MODULE Spec2Model ----
(***************************************************************************)
(* Durable delivery pipeline of opencode-discord-notify:                   *)
(*   PersistentQueue (src/queue/persistent-queue.ts),                      *)
(*   QueueWorker     (src/queue/worker.ts),                                *)
(*   the producers enqueueToThread / startWorkerIfNeeded (src/index.ts),   *)
(*   the transport postDiscordWebhook (src/index.ts).                      *)
(***************************************************************************)
EXTENDS Integers, Sequences, FiniteSets, TLC

\* ---------------------------------------------------------------- bounds
MaxMsgs == 2          \* rows the producers insert (AUTOINCREMENT ids 1..MaxMsgs)
MaxQMsgs == 3         \* rows inserted by direct calls of the queue interface
MaxClock == 1         \* Date.now() ranges over 0..MaxClock
MaxLoops == 2         \* poll() activations that can be alive at once
MaxPending == 1       \* event handlers suspended between enqueue and start
MaxCrashes == 1       \* process restarts
MaxStops == 1         \* calls of stop() from outside the worker
MaxParts == 2         \* text parts the host sends (partIDs 1..MaxParts)
MaxHeld == 2          \* parts held for one message while its role is unknown
MaxInits == 1         \* plugin initializations after the first, in one process
MaxNoopEvents == 1    \* events given to the handlers of those initializations

Sessions == {"s1", "s2"}
Messages == {"m1", "m2"}
Bodies == {"b1"}
ThreadIdsQ == {1, 2}  \* thread ids passed to direct calls of the queue interface
LimitsQ == {1, 2, 3}  \* limits passed to direct dequeue calls

\* ------------------------------------------------------ program constants
\* mutant: a batch of two rows per dequeue
BATCH_SIZE_two == 1 + 1

BATCH_SIZE == 1
MAX_RETRIES == 5

NULL == 0             \* SQL NULL / JS null for thread_id
NoError == "NULL"     \* SQL NULL for last_error

VARIABLES
  rows,             \* table discord_queue: set of row records
  nextId,           \* AUTOINCREMENT sequence: id the next INSERT receives
  now,              \* Date.now()
  isRunning,        \* QueueWorker.isRunning
  ac,               \* QueueWorker.abortController: loop owning the current signal, 0 = undefined
  loops,            \* activations of QueueWorker.poll
  sessionToThread,  \* Map sessionID -> threadID (NULL = no entry)
  pendingStart,     \* handlers awaiting postFallbackIfNeeded before startWorkerIfNeeded
  nextThread,       \* remote side: id the next created thread receives
  crashes,          \* number of process restarts so far
  hist,             \* per row id: what the worker did with the queued row (observation only)
  createOk,         \* per session: thread-creation calls that returned, this process lifetime
  startIgnored,     \* some start request found the worker Running (observation only)
  insOrder,         \* ids in the order enqueue inserted them (observation only)
  lifeAttempts,     \* postWebhook calls of the current process, counted up to 2 (observation only)
  call,             \* the last direct call of the queue interface and its result
  webhookUrl,       \* DISCORD_WEBHOOK_URL is set (read once, at plugin construction)
  http,             \* one postDiscordWebhook call, request by request
  stops,            \* calls of stop() from outside the worker so far
  linked,           \* per session: the thread id updateThreadId first stored for it (observation only)
  firstUserTextBySession,  \* Map sessionID -> first user text ("" = no entry)
  lastSessionInfo,  \* Map sessionID -> what session.created told ("none" = no entry)
  sent,             \* per queued row: HTTP requests of the finished postWebhook calls for
                    \* it, where the transport is followed request by request
  messageRoleById,  \* Map messageID -> role ("none" = no entry)
  pendingTextPartsByMessageId,  \* Map messageID -> parts held until the role is known
  sentTextPartIds,  \* Set of partIDs handleTextPart has let pass
  enqueuedParts,    \* the parts whose text row was enqueued, in that order (observation only)
  registered,       \* globalThis[GLOBAL_GUARD_KEY]
  instances,        \* queue/worker pairs constructed in this process
  noopHandlers,     \* handlers returned by initializations that found the guard set
  noopEvents,       \* events given to those handlers
  fallbackWebhookUrl,  \* DISCORD_WEBHOOK_FALLBACK_URL is set
  awaitingFallback, \* id of the row whose handler awaits its fallback post, 0 = none
  lifeFirstId       \* the AUTOINCREMENT sequence as this process found it (observation only)

vars == <<rows, nextId, now, isRunning, ac, loops, sessionToThread, pendingStart,
          nextThread, crashes, hist, createOk, startIgnored, insOrder, lifeAttempts, call,
          webhookUrl, http, stops, linked, firstUserTextBySession, lastSessionInfo,
          sent, messageRoleById, pendingTextPartsByMessageId, sentTextPartIds,
          enqueuedParts, registered, instances, noopHandlers, noopEvents,
          fallbackWebhookUrl, awaitingFallback, lifeFirstId>>

\* set at plugin construction, or by a caller of the worker
Config == <<webhookUrl, http, stops>>

\* what the event handlers remember of a session
Heard == <<firstUserTextBySession, lastSessionInfo>>

\* what handleTextPart and the message events keep of parts and messages
TextParts == <<messageRoleById, pendingTextPartsByMessageId, sentTextPartIds, enqueuedParts>>

\* the registration guard and what it has let through
Registration == <<registered, instances, noopHandlers, noopEvents>>

\* the fallback webhook and the handler waiting for its post
Fallback == <<fallbackWebhookUrl, awaitingFallback>>

\* what the worker and the transport leave alone
Beside == <<TextParts, Registration, Fallback, lifeFirstId>>

\* what the queue operations, the worker's bookkeeping and the handlers that
\* only enqueue leave alone
Outside == <<webhookUrl, http, stops, linked, firstUserTextBySession, lastSessionInfo,
             sent, Beside>>

\* ------------------------------------------------------- PersistentQueue
Row(id, s, t, b, ts) ==
  [id |-> id, sessionId |-> s, threadId |-> t, webhookBody |-> b,
   createdAt |-> ts, retryCount |-> 0, lastError |-> NoError]

enqueue(store, id, s, t, b, ts) == store \cup {Row(id, s, t, b, ts)}

\* ORDER BY created_at ASC, id ASC
RowBefore(a, b) ==
  \/ a.createdAt < b.createdAt
  \/ a.createdAt = b.createdAt /\ a.id < b.id

RECURSIVE OrderBy(_)
OrderBy(S) ==
  IF S = {} THEN <<>>
  ELSE LET m == CHOOSE x \in S : \A y \in S \ {x} : RowBefore(x, y)
       IN <<m>> \o OrderBy(S \ {m})

Min(a, b) == IF a < b THEN a ELSE b

RECURSIVE Reverse(_)
Reverse(q) == IF q = <<>> THEN <<>> ELSE Append(Reverse(Tail(q)), Head(q))

\* mutant: ORDER BY created_at DESC, id DESC
dequeue_newestFirst(store, limit) ==
  LET all == Reverse(OrderBy(store))
  IN SubSeq(all, 1, Min(limit, Len(all)))

dequeue(store, limit) ==
  LET all == OrderBy(store)
  IN SubSeq(all, 1, Min(limit, Len(all)))

\* mutant: a DELETE that matches no row removes the oldest row instead
delete_orOldest(store, id) ==
  IF id \in {r.id : r \in store} THEN {r \in store : r.id # id}
  ELSE {r \in store : \E o \in store : o.id < r.id}

delete(store, id) == {r \in store : r.id # id}

\* mutant: the WHERE clause lacks thread_id IS NULL
updateThreadId_all(store, s, t) ==
  {IF r.sessionId = s THEN [r EXCEPT !.threadId = t] ELSE r : r \in store}

\* mutant: the UPDATE of thread_id is not committed
updateThreadId_lost(store, s, t) == store

updateThreadId(store, s, t) ==
  {IF r.sessionId = s /\ r.threadId = NULL THEN [r EXCEPT !.threadId = t] ELSE r
     : r \in store}

\* mutant: the UPDATE has no WHERE clause
updateRetryCount_noWhere(store, id, n, e) ==
  {[r EXCEPT !.retryCount = n, !.lastError = e] : r \in store}

\* mutant: the UPDATE sets retry_count and leaves last_error as it was
updateRetryCount_countOnly(store, id, n, e) ==
  {IF r.id = id THEN [r EXCEPT !.retryCount = n] ELSE r : r \in store}

\* mutant: a failed row is also moved to the back of the queue
updateRetryCount_requeues(store, id, n, e) ==
  {IF r.id = id THEN [r EXCEPT !.retryCount = n, !.lastError = e, !.createdAt = MaxClock]
   ELSE r : r \in store}

updateRetryCount(store, id, n, e) ==
  {IF r.id = id THEN [r EXCEPT !.retryCount = n, !.lastError = e] ELSE r
     : r \in store}

count(store) == Cardinality(store)

\* ------------------------------------------------------------ QueueWorker
NoMsg == [id |-> 0, sessionId |-> "", threadId |-> NULL, webhookBody |-> "",
          createdAt |-> 0, retryCount |-> 0, lastError |-> NoError]

\* thread_name, by what it is derived from: the first user text, the session
\* title, the session id
\* (userText, info: firstUserTextBySession and lastSessionInfo as they are when
\* the name is built)
buildThreadName(userText, info, s) ==
  IF userText[s] # "" THEN "userText"
  ELSE IF info[s] = "titled" THEN "title"
  ELSE "sessionId"

\* no request: <<>> is a field left out
NoRequest == [wait |-> FALSE, thread_name |-> <<>>, thread_id |-> NULL]

\* mutant: the thread name is added to every request
RequestOf_alwaysNamed(m, userText, info) ==
  IF m.threadId = NULL
  THEN [wait |-> TRUE, thread_name |-> <<buildThreadName(userText, info, m.sessionId)>>,
        thread_id |-> NULL]
  ELSE [wait |-> FALSE, thread_name |-> <<buildThreadName(userText, info, m.sessionId)>>,
        thread_id |-> m.threadId]

\* the postWebhook input processMessage builds for a row
RequestOf(m, userText, info) ==
  IF m.threadId = NULL
  THEN [wait |-> TRUE, thread_name |-> <<buildThreadName(userText, info, m.sessionId)>>,
        thread_id |-> NULL]
  ELSE [wait |-> FALSE, thread_name |-> <<>>, thread_id |-> m.threadId]

Dead == [pc |-> "none", aborted |-> FALSE, msg |-> NoMsg, batch |-> <<>>, req |-> NoRequest]

LoopIds == 1..MaxLoops

Alive(l) == loops[l].pc # "none"

InFlight(l) == loops[l].pc \in {"fetch1", "rlsleep", "fetch2"}

\* mutant: the row is given up two attempts early
retryAllowed_early(currentRetry) == currentRetry < MAX_RETRIES - 2

\* mutant: off by one, a sixth retry is granted
retryAllowed_late(currentRetry) == currentRetry <= MAX_RETRIES

\* if (currentRetry < MAX_RETRIES) in the catch block of processMessage
retryAllowed(currentRetry) == currentRetry < MAX_RETRIES

\* mutant: stop() aborts the signal and leaves isRunning set
stop_keepsRunning(lp, cur) ==
  [loops |-> IF cur # 0 /\ lp[cur].pc # "none"
             THEN [lp EXCEPT ![cur].aborted = TRUE] ELSE lp,
   isRunning |-> TRUE, ac |-> cur]

\* stop(): this.abortController?.abort(); this.isRunning = false
stop(lp, cur) ==
  [loops |-> IF cur # 0 /\ lp[cur].pc # "none"
             THEN [lp EXCEPT ![cur].aborted = TRUE] ELSE lp,
   isRunning |-> FALSE, ac |-> cur]

\* the request processMessage builds for a row: a thread creation (wait,
\* thread_name) when the row has no threadId, else a post into the thread
RequestKind(m) == IF m.threadId = NULL THEN "create" ELSE "thread"

\* processMessage up to its first await: postWebhook has been called
processMessage(l, lp, m, rest) ==
  [lp EXCEPT ![l] = [pc |-> "fetch1", aborted |-> lp[l].aborted,
                     msg |-> m, batch |-> rest,
                     req |-> RequestOf(m, firstUserTextBySession, lastSessionInfo)]]

\* mutant: the loop also stops when the oldest row has failed before
poll_givesUp(l, store, lp, run, cur) ==
  LET messages == dequeue(store, BATCH_SIZE)
  IN IF Len(messages) = 0 \/ Head(messages).retryCount > 0
     THEN LET st == stop(lp, cur)
          IN [loops |-> [st.loops EXCEPT ![l] = Dead],
              isRunning |-> st.isRunning, ac |-> st.ac, called |-> <<>>]
     ELSE [loops |-> processMessage(l, lp, Head(messages), Tail(messages)),
           isRunning |-> run, ac |-> cur, called |-> <<Head(messages).id>>]

\* one pass through the body of while (!signal.aborted), up to the first await
poll(l, store, lp, run, cur) ==
  LET messages == dequeue(store, BATCH_SIZE)
  IN IF Len(messages) = 0
     THEN LET st == stop(lp, cur)
          IN [loops |-> [st.loops EXCEPT ![l] = Dead],
              isRunning |-> st.isRunning, ac |-> st.ac, called |-> <<>>]
     ELSE [loops |-> processMessage(l, lp, Head(messages), Tail(messages)),
           isRunning |-> run, ac |-> cur, called |-> <<Head(messages).id>>]

HasFreeLoop == \E l \in LoopIds : loops[l].pc = "none"

FreeLoop == CHOOSE l \in LoopIds :
              loops[l].pc = "none" /\ \A k \in LoopIds : k < l => loops[k].pc # "none"

\* mutant: start() without the isRunning guard
start_noGuard(store) ==
  IF ~HasFreeLoop
  THEN [loops |-> loops, isRunning |-> isRunning, ac |-> ac, called |-> <<>>]
  ELSE LET l == FreeLoop
       IN poll(l, store, [loops EXCEPT ![l] = [Dead EXCEPT !.pc = "new"]], TRUE, l)

\* start(): if (this.isRunning) return; ...; await this.poll(signal)
start(store) ==
  IF isRunning
  THEN [loops |-> loops, isRunning |-> isRunning, ac |-> ac, called |-> <<>>]
  ELSE LET l == FreeLoop
       IN poll(l, store, [loops EXCEPT ![l] = [Dead EXCEPT !.pc = "new"]], TRUE, l)

\* observation: hist after the postWebhook calls listed in called
Called(h, called) ==
  [i \in DOMAIN h |-> IF \E k \in DOMAIN called : called[k] = i
                      THEN [h[i] EXCEPT !.calls = @ + 1] ELSE h[i]]

Ids(store) == {r.id : r \in store}

RowOf(store, id) == CHOOSE r \in store : r.id = id


\* the for loop after a processMessage has returned, then sleep(POLL_INTERVAL_MS)
afterMessage(l, lp) ==
  IF lp[l].batch # <<>> /\ ~lp[l].aborted
  THEN [loops |-> processMessage(l, lp, Head(lp[l].batch), Tail(lp[l].batch)),
        called |-> <<Head(lp[l].batch).id>>]
  ELSE [loops |-> [lp EXCEPT ![l] = [pc |-> "pollsleep", aborted |-> lp[l].aborted,
                                     msg |-> NoMsg, batch |-> <<>>, req |-> NoRequest]],
        called |-> <<>>]

\* ---------------------------------------------------------------- Init
NoHist == [calls |-> 0, fails |-> 0, succ |-> 0, upd |-> <<>>, alerts |-> 0, del |-> "no"]

\* what is remembered of a row once it has left the queue
Gone(how) == [NoHist EXCEPT !.del = how]

NoCall == [op |-> "none", s |-> "", t |-> NULL, limit |-> 0, res |-> <<>>, id |-> 0, n |-> 0]

\* no postDiscordWebhook call is being followed
NoHttp == [pc |-> "idle"]

\* the first plugin() call of the process has returned
Constructed ==
  /\ rows = {}
  /\ nextId = 1
  /\ now = 0
  /\ isRunning = FALSE
  /\ ac = 0
  /\ loops = [l \in LoopIds |-> Dead]
  /\ sessionToThread = [s \in Sessions |-> NULL]
  /\ pendingStart = 0
  /\ nextThread = 1
  /\ crashes = 0
  /\ hist = [i \in 1..MaxMsgs |-> NoHist]
  /\ createOk = [s \in Sessions |-> 0]
  /\ startIgnored = FALSE
  /\ insOrder = <<>>
  /\ lifeAttempts = 0
  /\ call = NoCall
  /\ webhookUrl = TRUE
  /\ http = NoHttp
  /\ stops = 0
  /\ linked = [s \in Sessions |-> NULL]
  /\ firstUserTextBySession = [s \in Sessions |-> ""]
  /\ lastSessionInfo = [s \in Sessions |-> "none"]
  /\ sent = [i \in 1..MaxMsgs |-> 0]
  /\ messageRoleById = [m \in Messages |-> "none"]
  /\ pendingTextPartsByMessageId = [m \in Messages |-> <<>>]
  /\ sentTextPartIds = {}
  /\ enqueuedParts = <<>>
  /\ registered = TRUE
  /\ instances = 1
  /\ noopHandlers = 0
  /\ noopEvents = 0
  /\ awaitingFallback = 0
  /\ lifeFirstId = 1

\* DISCORD_WEBHOOK_FALLBACK_URL is not set
Init == Constructed /\ fallbackWebhookUrl = FALSE

\* ------------------------------------------------------------- producers
CanStart == isRunning \/ HasFreeLoop

\* mutant: the producers do not look the session up in sessionToThread
enqueueToThread_ignoresMap(s, b) ==
  IF ~webhookUrl THEN rows
  ELSE enqueue(rows, nextId, s, NULL, b, now)

\* enqueueToThread(sessionID, body): if (!webhookUrl) return
enqueueToThread(s, b) ==
  IF ~webhookUrl THEN rows
  ELSE enqueue(rows, nextId, s, sessionToThread[s], b, now)

\* the AUTOINCREMENT sequence and the insertion order after enqueueToThread
Inserted ==
  /\ nextId' = IF webhookUrl THEN nextId + 1 ELSE nextId
  /\ insOrder' = IF webhookUrl THEN Append(insOrder, nextId) ELSE insOrder

\* the worker part of a step that calls start() on the store as it then is
Started(store, h) ==
  LET w == start(store)
  IN /\ loops' = w.loops
     /\ isRunning' = w.isRunning
     /\ ac' = w.ac
     /\ hist' = Called(h, w.called)
     /\ lifeAttempts' = Min(2, lifeAttempts + Len(w.called))
     /\ startIgnored' = (startIgnored \/ isRunning)

\* todo.updated, handleTextPart: enqueueToThread; startWorkerIfNeeded() with no await between
HandleSync(s) ==
  /\ ~webhookUrl \/ nextId <= MaxMsgs
  /\ CanStart
  /\ rows' = enqueueToThread(s, "b1")
  /\ Started(enqueueToThread(s, "b1"), hist)
  /\ Inserted
  /\ UNCHANGED <<now, sessionToThread, pendingStart, nextThread, crashes, createOk, call>>
  /\ UNCHANGED Outside

\* permission.asked, session.idle, session.error: enqueueToThread; await postFallbackIfNeeded
HandleAsync(s) ==
  /\ ~webhookUrl \/ nextId <= MaxMsgs
  /\ pendingStart < MaxPending
  /\ rows' = enqueueToThread(s, "b1")
  /\ Inserted
  /\ pendingStart' = pendingStart + 1
  /\ UNCHANGED <<now, isRunning, ac, loops, sessionToThread, nextThread, crashes,
                 hist, createOk, startIgnored, lifeAttempts, call>>
  /\ UNCHANGED Outside

\* ... postFallbackIfNeeded has settled: startWorkerIfNeeded()
startWorkerIfNeeded ==
  /\ pendingStart > 0
  /\ CanStart
  /\ pendingStart' = pendingStart - 1
  /\ Started(rows, hist)
  /\ UNCHANGED <<rows, nextId, now, sessionToThread, nextThread, crashes,
                 createOk, insOrder, call>>
  /\ UNCHANGED Outside

\* worker.start() called with no enqueue before it
StartCall ==
  /\ CanStart
  /\ Started(rows, hist)
  /\ UNCHANGED <<rows, nextId, now, sessionToThread, pendingStart, nextThread, crashes,
                 createOk, insOrder, call>>
  /\ UNCHANGED Outside

Tick ==
  /\ now < MaxClock
  /\ now' = now + 1
  /\ UNCHANGED <<rows, nextId, isRunning, ac, loops, sessionToThread, pendingStart,
                 nextThread, crashes, hist, createOk, startIgnored, insOrder,
                 lifeAttempts, call>>
  /\ UNCHANGED Outside

\* ------------------------------------------------- worker: transport returns
\* the worker part of a step in which processMessage of loop l returns
Returned(l, h) ==
  LET w == afterMessage(l, loops)
  IN /\ loops' = w.loops
     /\ hist' = Called(h, w.called)
     /\ lifeAttempts' = Min(2, lifeAttempts + Len(w.called))

\* mutant: the onThreadCreated callback is not invoked
PostOk_noCallback(l, valid) ==
  /\ loops[l].pc \in {"fetch1", "fetch2"}
  /\ webhookUrl
  /\ LET m == loops[l].msg
         s == m.sessionId
         T == nextThread
     IN /\ IF m.threadId = NULL
           THEN /\ nextThread' = nextThread + 1
                /\ createOk' = [createOk EXCEPT ![s] = @ + 1]
                /\ IF valid
                   THEN rows' = delete(updateThreadId(rows, s, T), m.id)
                   ELSE rows' = delete(rows, m.id)
                /\ UNCHANGED sessionToThread
           ELSE /\ valid = FALSE
                /\ rows' = delete(rows, m.id)
                /\ UNCHANGED <<nextThread, createOk, sessionToThread>>
        /\ Returned(l, [hist EXCEPT ![m.id] = Gone("success")])
  /\ UNCHANGED <<nextId, now, isRunning, ac, pendingStart, crashes, startIgnored,
                 insOrder, call>>
  /\ linked' = IF valid /\ loops[l].msg.threadId = NULL /\ linked[loops[l].msg.sessionId] = NULL
               THEN [linked EXCEPT ![loops[l].msg.sessionId] = nextThread]
               ELSE linked
  /\ UNCHANGED Config
  /\ UNCHANGED sent
  /\ UNCHANGED Heard
  /\ UNCHANGED Beside

\* mutant: a creation that returned no id counts as a failed attempt
PostOk_retriesUnlinked(l, valid) ==
  /\ loops[l].pc \in {"fetch1", "fetch2"}
  /\ webhookUrl
  /\ LET m == loops[l].msg
         s == m.sessionId
         T == nextThread
     IN /\ IF m.threadId = NULL
           THEN /\ nextThread' = nextThread + 1
                /\ createOk' = [createOk EXCEPT ![s] = @ + 1]
                /\ IF valid
                   THEN /\ rows' = delete(updateThreadId(rows, s, T), m.id)
                        /\ sessionToThread' = [sessionToThread EXCEPT ![s] = T]
                   ELSE /\ rows' = updateRetryCount(rows, m.id, m.retryCount + 1, "error")
                        /\ UNCHANGED sessionToThread
           ELSE /\ valid = FALSE
                /\ rows' = delete(rows, m.id)
                /\ UNCHANGED <<nextThread, createOk, sessionToThread>>
        /\ Returned(l, [hist EXCEPT ![m.id] = Gone("success")])
  /\ UNCHANGED <<nextId, now, isRunning, ac, pendingStart, crashes, startIgnored,
                 insOrder, call>>
  /\ linked' = IF valid /\ loops[l].msg.threadId = NULL /\ linked[loops[l].msg.sessionId] = NULL
               THEN [linked EXCEPT ![loops[l].msg.sessionId] = nextThread]
               ELSE linked
  /\ UNCHANGED Config
  /\ UNCHANGED sent
  /\ UNCHANGED Heard
  /\ UNCHANGED Beside

\* postWebhook resolved (first response ok, or ok after the 429 retry);
\* valid: the response body carried string id and channel_id.
\* With webhookUrl '' no response ever arrives: withQuery's new URL('') throws.
PostOk(l, valid) ==
  /\ loops[l].pc \in {"fetch1", "fetch2"}
  /\ webhookUrl
  /\ LET m == loops[l].msg
         s == m.sessionId
         T == nextThread
     IN /\ IF m.threadId = NULL
           THEN /\ nextThread' = nextThread + 1
                /\ createOk' = [createOk EXCEPT ![s] = @ + 1]
                /\ IF valid
                   THEN /\ rows' = delete(updateThreadId(rows, s, T), m.id)
                        /\ sessionToThread' = [sessionToThread EXCEPT ![s] = T]
                   ELSE /\ rows' = delete(rows, m.id)
                        /\ UNCHANGED sessionToThread
           ELSE /\ valid = FALSE
                /\ rows' = delete(rows, m.id)
                /\ UNCHANGED <<nextThread, createOk, sessionToThread>>
        /\ Returned(l, [hist EXCEPT ![m.id] = Gone("success")])
  /\ UNCHANGED <<nextId, now, isRunning, ac, pendingStart, crashes, startIgnored,
                 insOrder, call>>
  /\ linked' = IF valid /\ loops[l].msg.threadId = NULL /\ linked[loops[l].msg.sessionId] = NULL
               THEN [linked EXCEPT ![loops[l].msg.sessionId] = nextThread]
               ELSE linked
  /\ UNCHANGED Config
  /\ UNCHANGED sent
  /\ UNCHANGED Heard
  /\ UNCHANGED Beside

\* first response was 429: sleepImpl(waitMs)
RateLimited(l) ==
  /\ loops[l].pc = "fetch1"
  /\ webhookUrl
  /\ loops' = [loops EXCEPT ![l].pc = "rlsleep"]
  /\ UNCHANGED <<rows, nextId, now, isRunning, ac, sessionToThread, pendingStart,
                 nextThread, crashes, hist, createOk, startIgnored, insOrder,
                 lifeAttempts, call>>
  /\ UNCHANGED Outside

\* the rate-limit sleep is over: doRequest() again
RetryRequest(l) ==
  /\ loops[l].pc = "rlsleep"
  /\ loops' = [loops EXCEPT ![l].pc = "fetch2"]
  /\ UNCHANGED <<rows, nextId, now, isRunning, ac, sessionToThread, pendingStart,
                 nextThread, crashes, hist, createOk, startIgnored, insOrder,
                 lifeAttempts, call>>
  /\ UNCHANGED Outside

\* postWebhook threw: catch block of processMessage up to await maybeAlertError
PostFails(l) ==
  /\ loops[l].pc \in {"fetch1", "fetch2"}
  /\ LET m == loops[l].msg
         currentRetry == m.retryCount
     IN IF retryAllowed(currentRetry)
        THEN /\ rows' = updateRetryCount(rows, m.id, currentRetry + 1, "error")
             /\ hist' = [hist EXCEPT ![m.id].fails = @ + 1,
                                     ![m.id].upd = Append(@, currentRetry + 1)]
             /\ loops' = [loops EXCEPT ![l].pc = "alertRetry"]
        ELSE /\ rows' = rows
             /\ hist' = [hist EXCEPT ![m.id].fails = @ + 1, ![m.id].alerts = @ + 1]
             /\ loops' = [loops EXCEPT ![l].pc = "alertDiscard"]
  /\ UNCHANGED <<nextId, now, isRunning, ac, sessionToThread, pendingStart,
                 nextThread, crashes, createOk, startIgnored, insOrder, lifeAttempts,
                 call>>
  /\ UNCHANGED Outside

\* maybeAlertError settled: rest of the catch block
AlertDone(l) ==
  /\ loops[l].pc \in {"alertRetry", "alertDiscard"}
  /\ IF loops[l].pc = "alertDiscard"
     THEN /\ rows' = delete(rows, loops[l].msg.id)
          /\ Returned(l, [hist EXCEPT ![loops[l].msg.id] = Gone("discard")])
     ELSE /\ rows' = rows
          /\ Returned(l, hist)
  /\ UNCHANGED <<nextId, now, isRunning, ac, sessionToThread, pendingStart,
                 nextThread, crashes, createOk, startIgnored, insOrder, call>>
  /\ UNCHANGED Outside

\* mutant: the while condition does not look at the signal
Wake_ignoresAbort(l) ==
  /\ loops[l].pc = "pollsleep"
  /\ LET w == poll(l, rows, loops, isRunning, ac)
     IN /\ loops' = w.loops
        /\ isRunning' = w.isRunning
        /\ ac' = w.ac
        /\ hist' = Called(hist, w.called)
        /\ lifeAttempts' = Min(2, lifeAttempts + Len(w.called))
  /\ UNCHANGED <<rows, nextId, now, sessionToThread, pendingStart, nextThread,
                 crashes, createOk, startIgnored, insOrder, call>>
  /\ UNCHANGED Outside

\* sleep(POLL_INTERVAL_MS) is over: while (!signal.aborted) ...
Wake(l) ==
  /\ loops[l].pc = "pollsleep"
  /\ LET w == IF loops[l].aborted
              THEN [loops |-> [loops EXCEPT ![l] = Dead], isRunning |-> isRunning,
                    ac |-> ac, called |-> <<>>]
              ELSE poll(l, rows, loops, isRunning, ac)
     IN /\ loops' = w.loops
        /\ isRunning' = w.isRunning
        /\ ac' = w.ac
        /\ hist' = Called(hist, w.called)
        /\ lifeAttempts' = Min(2, lifeAttempts + Len(w.called))
  /\ UNCHANGED <<rows, nextId, now, sessionToThread, pendingStart, nextThread,
                 crashes, createOk, startIgnored, insOrder, call>>
  /\ UNCHANGED Outside

LoopStep(l) ==
  \/ \E valid \in BOOLEAN : PostOk(l, valid)
  \/ RateLimited(l)
  \/ RetryRequest(l)
  \/ PostFails(l)
  \/ AlertDone(l)
  \/ Wake(l)

Next ==
  \/ \E s \in Sessions : HandleSync(s)
  \/ \E s \in Sessions : HandleAsync(s)
  \/ startWorkerIfNeeded
  \/ StartCall
  \/ Tick
  \/ \E l \in LoopIds : LoopStep(l)

Spec == Init /\ [][Next]_vars

\* ------------------------------------------------------- process restart
\* mutant: the table is created anew at every start
initDatabase_fresh(store) == {}

\* initDatabase(): the file of the previous process is opened again,
\* CREATE TABLE IF NOT EXISTS keeps its rows
initDatabase(store) == store

\* everything the plugin closure and the QueueWorker object hold is gone
Restarted(store) ==
  /\ crashes < MaxCrashes
  /\ crashes' = crashes + 1
  /\ rows' = initDatabase(store)
  /\ isRunning' = FALSE
  /\ ac' = 0
  /\ loops' = [l \in LoopIds |-> Dead]
  /\ sessionToThread' = [s \in Sessions |-> NULL]
  /\ pendingStart' = 0
  /\ createOk' = [s \in Sessions |-> 0]
  /\ startIgnored' = FALSE
  /\ lifeAttempts' = 0
  /\ firstUserTextBySession' = [s \in Sessions |-> ""]
  /\ lastSessionInfo' = [s \in Sessions |-> "none"]
  /\ messageRoleById' = [m \in Messages |-> "none"]
  /\ pendingTextPartsByMessageId' = [m \in Messages |-> <<>>]
  /\ sentTextPartIds' = {}
  /\ awaitingFallback' = 0
  /\ lifeFirstId' = nextId
  /\ UNCHANGED <<nextId, now, insOrder, call>>
  /\ UNCHANGED <<http, stops, sent, enqueuedParts, fallbackWebhookUrl>>
  /\ UNCHANGED Registration

\* the process stops between two statements of the event loop
Crash ==
  /\ Restarted(rows)
  /\ UNCHANGED <<nextThread, hist>>
  /\ UNCHANGED <<webhookUrl, linked>>

\* the process stops inside processMessage, after updateThreadId committed
\* and before delete ran
CrashInProcessMessage(l) ==
  /\ loops[l].pc \in {"fetch1", "fetch2"}
  /\ loops[l].msg.threadId = NULL
  /\ Restarted(updateThreadId(rows, loops[l].msg.sessionId, nextThread))
  /\ nextThread' = nextThread + 1
  /\ hist' = [hist EXCEPT ![loops[l].msg.id].succ = @ + 1]
  /\ linked' = IF linked[loops[l].msg.sessionId] = NULL
               THEN [linked EXCEPT ![loops[l].msg.sessionId] = nextThread]
               ELSE linked
  /\ UNCHANGED webhookUrl

\* the clock stands still here: rows are ordered by id alone
NextCrash ==
  \/ \E s \in Sessions : HandleSync(s)
  \/ \E s \in Sessions : HandleAsync(s)
  \/ startWorkerIfNeeded
  \/ StartCall
  \/ \E l \in LoopIds : LoopStep(l)
  \/ Crash
  \/ \E l \in LoopIds : CrashInProcessMessage(l)

SpecCrash == Init /\ [][NextCrash]_vars

\* ------------------------------------------ stop() called from outside
\* worker.stop() called by the owner of the worker, at any time
StopCall ==
  /\ stops < MaxStops
  /\ stops' = stops + 1
  /\ LET st == stop(loops, ac)
     IN /\ loops' = st.loops
        /\ isRunning' = st.isRunning
        /\ ac' = st.ac
  /\ UNCHANGED <<rows, nextId, now, sessionToThread, pendingStart, nextThread, crashes,
                 hist, createOk, startIgnored, insOrder, lifeAttempts, call,
                 webhookUrl, http, linked, firstUserTextBySession, lastSessionInfo,
                 sent>>
  /\ UNCHANGED Beside

\* the clock stands still here: rows are ordered by id alone
NextStop ==
  \/ \E s \in Sessions : HandleSync(s)
  \/ \E s \in Sessions : HandleAsync(s)
  \/ startWorkerIfNeeded
  \/ StartCall
  \/ \E l \in LoopIds : LoopStep(l)
  \/ StopCall

SpecStop == Init /\ [][NextStop]_vars

\* start() is not called while a loop that stop() has cancelled is still alive
NoStoppedLoop == \A l \in LoopIds : Alive(l) => ~loops[l].aborted

\* stop() from outside, and start() again only after the stopped loop has exited
NextStopExit ==
  \/ NoStoppedLoop /\ \E s \in Sessions : HandleSync(s)
  \/ NoStoppedLoop /\ StartCall
  \/ \E l \in LoopIds : LoopStep(l)
  \/ StopCall

SpecStopExit == Init /\ [][NextStopExit]_vars

\* ------------------------------------------- a queue operation throws
\* this.deps.queue.dequeue(BATCH_SIZE) throws: poll has no try around it, so
\* poll and start() reject and the this.stop() of the empty branch is not run
DequeueThrows(l) ==
  /\ loops[l].pc = "pollsleep"
  /\ ~loops[l].aborted
  /\ loops' = [loops EXCEPT ![l] = Dead]
  /\ UNCHANGED <<rows, nextId, now, isRunning, ac, sessionToThread, pendingStart,
                 nextThread, crashes, hist, createOk, startIgnored, insOrder,
                 lifeAttempts, call>>
  /\ UNCHANGED Outside

NextThrow ==
  \/ NoStoppedLoop /\ \E s \in Sessions : HandleSync(s)
  \/ NoStoppedLoop /\ StartCall
  \/ \E l \in LoopIds : LoopStep(l)
  \/ StopCall
  \/ \E l \in LoopIds : DequeueThrows(l)

SpecThrow == Init /\ [][NextThrow]_vars

\* ----------------------------- restart with DISCORD_WEBHOOK_URL unset
\* the next process finds the database file of this one and no webhook URL
RestartUnconfigured ==
  /\ webhookUrl
  /\ Restarted(rows)
  /\ webhookUrl' = FALSE
  /\ UNCHANGED <<nextThread, hist, linked>>

NextNoUrl ==
  \/ \E s \in Sessions : HandleSync(s)
  \/ \E s \in Sessions : HandleAsync(s)
  \/ startWorkerIfNeeded
  \/ \E l \in LoopIds : LoopStep(l)
  \/ RestartUnconfigured

SpecNoUrl == Init /\ [][NextNoUrl]_vars

\* ------------------------------------------- the events of a session
\* session.created: the info is cached, nothing is enqueued
SessionCreated(s, title) ==
  /\ lastSessionInfo' = [lastSessionInfo EXCEPT ![s] = IF title THEN "titled" ELSE "untitled"]
  /\ UNCHANGED <<rows, nextId, now, isRunning, ac, loops, sessionToThread, pendingStart,
                 nextThread, crashes, hist, createOk, startIgnored, insOrder,
                 lifeAttempts, call, firstUserTextBySession>>
  /\ UNCHANGED Config
  /\ UNCHANGED sent
  /\ UNCHANGED linked
  /\ UNCHANGED Beside

\* buildSessionCreatedEmbed(sessionID) is enqueued when the session has no
\* sessionToThread entry and session.created has been seen
StartedEmbedDue(s) == sessionToThread[s] = NULL /\ lastSessionInfo[s] # "none"

\* rows a user text inserts
UserTextRows(s) == IF webhookUrl /\ StartedEmbedDue(s) THEN 2 ELSE IF webhookUrl THEN 1 ELSE 0

\* handleTextPart for a non-empty text part of a user message: remember the
\* first user text, enqueue the session-started embed and the text,
\* startWorkerIfNeeded(), all with no await between
UserText(s) ==
  /\ nextId + UserTextRows(s) - 1 <= MaxMsgs
  /\ CanStart
  /\ firstUserTextBySession' =
       IF firstUserTextBySession[s] = ""
       THEN [firstUserTextBySession EXCEPT ![s] = "text"] ELSE firstUserTextBySession
  /\ LET n == UserTextRows(s)
         first == IF n = 2
                  THEN enqueue(rows, nextId, s, sessionToThread[s], "started", now)
                  ELSE rows
         store == IF n = 0 THEN rows
                  ELSE enqueue(first, nextId + n - 1, s, sessionToThread[s], "user", now)
         w == start(store)
     IN /\ rows' = store
        /\ nextId' = nextId + n
        /\ insOrder' = insOrder \o [i \in 1..n |-> nextId + i - 1]
        /\ loops' = [l \in LoopIds |->
                       IF loops[l].pc = "none" /\ w.loops[l].pc = "fetch1"
                       THEN [w.loops[l] EXCEPT
                               !.req = RequestOf(w.loops[l].msg, firstUserTextBySession',
                                                 lastSessionInfo)]
                       ELSE w.loops[l]]
        /\ isRunning' = w.isRunning
        /\ ac' = w.ac
        /\ hist' = Called(hist, w.called)
        /\ lifeAttempts' = Min(2, lifeAttempts + Len(w.called))
        /\ startIgnored' = (startIgnored \/ isRunning)
  /\ UNCHANGED <<now, sessionToThread, pendingStart, nextThread, crashes, createOk, call,
                 lastSessionInfo>>
  /\ UNCHANGED Config
  /\ UNCHANGED sent
  /\ UNCHANGED linked
  /\ UNCHANGED Beside

\* the clock stands still here: rows are ordered by id alone
NextEvents ==
  \/ \E s \in Sessions, title \in BOOLEAN : SessionCreated(s, title)
  \/ \E s \in Sessions : UserText(s)
  \/ \E s \in Sessions : HandleSync(s)
  \/ \E s \in Sessions : HandleAsync(s)
  \/ startWorkerIfNeeded
  \/ \E l \in LoopIds : LoopStep(l)

SpecEvents == Init /\ [][NextEvents]_vars

\* --------------------------------------------------------------- liveness
\* the event loop runs every continuation that is ready: a response, a timer,
\* a settled alert, a handler resuming after its await
SpecLive ==
  /\ Init
  /\ [][Next]_vars
  /\ \A l \in LoopIds : WF_vars(LoopStep(l))
  /\ WF_vars(startWorkerIfNeeded)

\* ------------------------------- the queue interface called directly
Worker0 == <<isRunning, ac, loops, sessionToThread, pendingStart, nextThread, crashes,
             hist, createOk, startIgnored, lifeAttempts>>

\* mutant: the id column without AUTOINCREMENT, the largest id in the table plus one
QEnqueue_rowid(s, t, b) ==
  /\ nextId <= MaxQMsgs
  /\ LET id == IF rows = {} THEN 1
               ELSE 1 + CHOOSE x \in Ids(rows) : \A y \in Ids(rows) : y <= x
     IN /\ rows' = enqueue(rows, id, s, t, b, now)
        /\ insOrder' = Append(insOrder, id)
  /\ nextId' = nextId + 1
  /\ call' = NoCall
  /\ UNCHANGED <<now, Worker0>>
  /\ UNCHANGED Outside

QEnqueue(s, t, b) ==
  /\ nextId <= MaxQMsgs
  /\ rows' = enqueue(rows, nextId, s, t, b, now)
  /\ nextId' = nextId + 1
  /\ insOrder' = Append(insOrder, nextId)
  /\ call' = NoCall
  /\ UNCHANGED <<now, Worker0>>
  /\ UNCHANGED Outside

\* mutant: dequeue removes the rows it returns
QDequeue_destructive(limit) ==
  /\ call' = [NoCall EXCEPT !.op = "dequeue", !.limit = limit, !.res = dequeue(rows, limit)]
  /\ rows' = {r \in rows : \A i \in 1..Len(dequeue(rows, limit)) : dequeue(rows, limit)[i] # r}
  /\ UNCHANGED <<nextId, now, insOrder, Worker0>>
  /\ UNCHANGED Outside

QDequeue(limit) ==
  /\ call' = [NoCall EXCEPT !.op = "dequeue", !.limit = limit, !.res = dequeue(rows, limit)]
  /\ UNCHANGED <<rows, nextId, now, insOrder, Worker0>>
  /\ UNCHANGED Outside

QDelete(id) ==
  /\ rows' = delete(rows, id)
  /\ call' = NoCall
  /\ UNCHANGED <<nextId, now, insOrder, Worker0>>
  /\ UNCHANGED Outside

\* call.limit: how many rows of session s had no thread id when the call was made
QUpdateThreadId(s, t) ==
  /\ rows' = updateThreadId(rows, s, t)
  /\ call' = [NoCall EXCEPT !.op = "updateThreadId", !.s = s, !.t = t,
                 !.limit = count({r \in rows : r.sessionId = s /\ r.threadId = NULL})]
  /\ UNCHANGED <<nextId, now, insOrder, Worker0>>
  /\ UNCHANGED Outside

QTick ==
  /\ now < MaxClock
  /\ now' = now + 1
  /\ call' = NoCall
  /\ UNCHANGED <<rows, nextId, insOrder, Worker0>>
  /\ UNCHANGED Outside

NextQ ==
  \/ \E s \in Sessions, t \in ThreadIdsQ \cup {NULL}, b \in Bodies : QEnqueue(s, t, b)
  \/ \E limit \in LimitsQ : QDequeue(limit)
  \/ \E id \in 1..MaxQMsgs : QDelete(id)
  \/ \E s \in Sessions, t \in ThreadIdsQ : QUpdateThreadId(s, t)
  \/ QTick

SpecQ == Init /\ [][NextQ]_vars

\* ------------------- delete called directly, with the call remembered
\* call.n: 1 for a first delete(id), 2 when the call before it was the same delete(id)
QDeleteCall(id) ==
  /\ rows' = delete(rows, id)
  /\ call' = [NoCall EXCEPT !.op = "delete", !.id = id,
                 !.n = IF call.op = "delete" /\ call.id = id THEN 2 ELSE 1]
  /\ UNCHANGED <<nextId, now, insOrder, Worker0>>
  /\ UNCHANGED Outside

NextDel ==
  \/ \E s \in Sessions, b \in Bodies : QEnqueue(s, NULL, b)
  \/ \E id \in 1..MaxQMsgs : QDeleteCall(id)
  \/ QTick

SpecDel == Init /\ [][NextDel]_vars

\* ----------------------- enqueue, delete and updateRetryCount called directly
RetryCountsQ == {1, 2}   \* retry counts passed to direct updateRetryCount calls
ErrorsQ == {"error"}     \* error texts passed to them

QUpdateRetryCount(id, n, e) ==
  /\ rows' = updateRetryCount(rows, id, n, e)
  /\ call' = NoCall
  /\ UNCHANGED <<nextId, now, insOrder, Worker0>>
  /\ UNCHANGED Outside

NextRow ==
  \/ \E s \in Sessions, b \in Bodies : QEnqueue(s, NULL, b)
  \/ \E id \in 1..MaxQMsgs : QDelete(id)
  \/ \E id \in 1..MaxQMsgs, n \in RetryCountsQ, e \in ErrorsQ : QUpdateRetryCount(id, n, e)
  \/ QTick

SpecRow == Init /\ [][NextRow]_vars

\* ------------------------------------------------------ postDiscordWebhook
HTTP_STATUS_TOO_MANY_REQUESTS == 429
MS_PER_SECOND == 1000
DEFAULT_RATE_LIMIT_WAIT_MS == 10000

\* a JSON field (or header) as the code tells values apart
FieldValues == {"absent", "number", "string"}

\* retry_after in a body, Retry-After in a header: absent, not a finite
\* number, or a number of seconds
\* number of seconds, fractions included: values are written in 1/TicksPerSecond s
TicksPerSecond == 10000
Seconds == {-10000, 0, 4, 20000}    \* retry_after: -1 s, 0 s, 0.0004 s, 2 s
HeaderSeconds == {-10000, 0, 30000}  \* Retry-After: -1 s, 0 s, 3 s

RetryAfter(values) ==
  {[kind |-> "absent", value |-> 0], [kind |-> "nan", value |-> 0]}
    \cup {[kind |-> "number", value |-> v] : v \in values}

RetryAfterValues == RetryAfter(Seconds)

NoFields == [json |-> "unparsable", id |-> "absent", channel_id |-> "absent",
             retry_after |-> [kind |-> "absent", value |-> 0]]

\* bodies of 2xx responses: no JSON (also the empty body of a 204), JSON null,
\* a JSON number or string, or an object with id and channel_id present or
\* not, string or not
OkBodies ==
  {NoFields, [NoFields EXCEPT !.json = "null"], [NoFields EXCEPT !.json = "scalar"]}
    \cup {[NoFields EXCEPT !.json = "object", !.id = i, !.channel_id = c]
            : i \in FieldValues, c \in FieldValues}

\* bodies of 429 responses
RateLimitBodies ==
  {NoFields} \cup {[NoFields EXCEPT !.json = "object", !.retry_after = r]
                     : r \in RetryAfterValues}

\* bodies of other error responses
ErrorBodies == {NoFields, [NoFields EXCEPT !.json = "object"]}

NoHeader == [kind |-> "absent", value |-> 0]

Responses ==
  {[status |-> s, body |-> b, header |-> NoHeader] : s \in {200}, b \in OkBodies}
    \cup {[status |-> 204, body |-> NoFields, header |-> NoHeader]}
    \cup {[status |-> HTTP_STATUS_TOO_MANY_REQUESTS, body |-> b, header |-> h]
            : b \in RateLimitBodies, h \in RetryAfter(HeaderSeconds)}
    \cup {[status |-> s, body |-> b, header |-> NoHeader] : s \in {400, 500}, b \in ErrorBodies}

\* response.ok
Ok(resp) == resp.status >= 200 /\ resp.status <= 299

\* the value a call resolves with: <<>> is undefined
Pair == <<[id |-> "string", channel_id |-> "string"]>>

\* mutant: only channel_id is looked at
parseResponse_channelOnly(wait, body) ==
  IF ~wait THEN <<>>
  ELSE IF body.json # "object" THEN <<>>
  ELSE IF body.channel_id # "string" THEN <<>>
  ELSE Pair

\* if (!wait) return undefined; ... return { id: messageId, channel_id: channelId }
parseResponse(wait, body) ==
  IF ~wait THEN <<>>
  ELSE IF body.json # "object" THEN <<>>
  ELSE IF body.channel_id # "string" \/ body.id # "string" THEN <<>>
  ELSE Pair

\* parseRetryAfterFromText, parseRetryAfterFromHeader: <<>> is undefined
parseRetryAfter(r) ==
  IF r.kind = "number" /\ r.value >= 0 THEN <<r.value>> ELSE <<>>

parseRetryAfterFromText(body) ==
  IF body.json # "object" THEN <<>> ELSE parseRetryAfter(body.retry_after)

\* parseRetryAfterFromText(text) ?? parseRetryAfterFromHeader(response.headers)
retryAfterSeconds(resp) ==
  IF parseRetryAfterFromText(resp.body) # <<>> THEN parseRetryAfterFromText(resp.body)
  ELSE parseRetryAfter(resp.header)

\* Math.ceil(a / b) for a >= 0
Ceil(a, b) == (a + b - 1) \div b

\* mutant: the header is asked first
waitMs_headerFirst(resp, waitOnRateLimitMs) ==
  IF parseRetryAfter(resp.header) # <<>>
  THEN Ceil(parseRetryAfter(resp.header)[1] * MS_PER_SECOND, TicksPerSecond)
  ELSE IF parseRetryAfterFromText(resp.body) # <<>>
  THEN Ceil(parseRetryAfterFromText(resp.body)[1] * MS_PER_SECOND, TicksPerSecond)
  ELSE waitOnRateLimitMs

\* retryAfterSeconds === undefined ? deps.waitOnRateLimitMs
\*                                 : Math.ceil(retryAfterSeconds * MS_PER_SECOND)
waitMs(resp, waitOnRateLimitMs) ==
  IF retryAfterSeconds(resp) = <<>> THEN waitOnRateLimitMs
  ELSE Ceil(retryAfterSeconds(resp)[1] * MS_PER_SECOND, TicksPerSecond)

\* new Error(`Discord webhook failed: ${status} ${statusText} ${text}`)
Failure(resp) == <<[status |-> resp.status, text |-> resp.body]>>

\* fetchImpl rejected: the rejection passes through postDiscordWebhook
NetworkError == <<[status |-> 0, text |-> NoFields]>>

\* maybeAlertError is called only when deps.showErrorAlert
Alerted(h, variant) == IF h.showErrorAlert THEN Append(h.alerts, variant) ELSE h.alerts

NotHttp == <<rows, nextId, now, isRunning, ac, loops, sessionToThread, pendingStart,
             nextThread, crashes, hist, createOk, startIgnored, insOrder, lifeAttempts,
             call, webhookUrl, stops, linked, firstUserTextBySession,
             lastSessionInfo, sent, Beside>>

\* postDiscordWebhook(input, deps) up to await doRequest()
postDiscordWebhook(wait, showErrorAlert) ==
  /\ http.pc \in {"idle", "returned", "threw"}
  /\ http' = [pc |-> "req1", wait |-> wait, showErrorAlert |-> showErrorAlert,
              requests |-> 1, sleeps |-> <<>>, alerts |-> <<>>,
              result |-> <<>>, error |-> <<>>]
  /\ UNCHANGED NotHttp

\* what follows a 2xx response
succeeded(h, resp) ==
  [h EXCEPT !.pc = "returned", !.result = parseResponse(h.wait, resp.body)]

\* what follows a response that is neither 2xx nor, on the first request, 429
failed(h, resp, variant) ==
  [h EXCEPT !.pc = "threw", !.alerts = Alerted(h, variant), !.error = Failure(resp)]

\* mutant: a 429 is treated like every other error status
FirstResponse_noRetry(resp) ==
  /\ http.pc = "req1"
  /\ http' = IF Ok(resp) THEN succeeded(http, resp) ELSE failed(http, resp, "error")
  /\ UNCHANGED NotHttp

\* mutant: every error status is retried after the default wait
FirstResponse_retryAll(resp) ==
  /\ http.pc = "req1"
  /\ http' = IF Ok(resp) THEN succeeded(http, resp)
             ELSE [http EXCEPT !.pc = "sleep",
                     !.sleeps = Append(@, waitMs(resp, DEFAULT_RATE_LIMIT_WAIT_MS))]
  /\ UNCHANGED NotHttp

\* the first response has arrived
FirstResponse(resp) ==
  /\ http.pc = "req1"
  /\ http' = IF Ok(resp) THEN succeeded(http, resp)
             ELSE IF resp.status = HTTP_STATUS_TOO_MANY_REQUESTS
             THEN [http EXCEPT !.pc = "sleep",
                     !.sleeps = Append(@, waitMs(resp, DEFAULT_RATE_LIMIT_WAIT_MS))]
             ELSE failed(http, resp, "error")
  /\ UNCHANGED NotHttp

\* sleepImpl(waitMs) is over: const retryResponse = await doRequest()
SleepDone ==
  /\ http.pc = "sleep"
  /\ http' = [http EXCEPT !.pc = "req2", !.requests = @ + 1]
  /\ UNCHANGED NotHttp

\* mutant: a 429 answer to the retry is waited out and retried again
RetryResponse_again(resp) ==
  /\ http.pc = "req2"
  /\ http' = IF Ok(resp) THEN succeeded(http, resp)
             ELSE IF resp.status = HTTP_STATUS_TOO_MANY_REQUESTS
             THEN [http EXCEPT !.pc = "sleep",
                     !.sleeps = Append(@, waitMs(resp, DEFAULT_RATE_LIMIT_WAIT_MS))]
             ELSE failed(http, resp, "warning")
  /\ UNCHANGED NotHttp

\* the response to the retry has arrived
RetryResponse(resp) ==
  /\ http.pc = "req2"
  /\ http' = IF Ok(resp) THEN succeeded(http, resp) ELSE failed(http, resp, "warning")
  /\ UNCHANGED NotHttp

FetchRejects ==
  /\ http.pc \in {"req1", "req2"}
  /\ http' = [http EXCEPT !.pc = "threw", !.error = NetworkError]
  /\ UNCHANGED NotHttp

NextPost ==
  \/ \E wait \in BOOLEAN, showErrorAlert \in BOOLEAN : postDiscordWebhook(wait, showErrorAlert)
  \/ \E resp \in Responses : FirstResponse(resp)
  \/ SleepDone
  \/ \E resp \in Responses : RetryResponse(resp)
  \/ FetchRejects

SpecPost == Init /\ [][NextPost]_vars

\* ------------------- the worker's retry path over the transport's requests
\* the row the single loop is processing: the head of the queue
Current == dequeue(rows, BATCH_SIZE)[1]

\* an event handler enqueues a row; the worker is running
RetryEnqueue(s) ==
  /\ nextId <= MaxMsgs
  /\ rows' = enqueueToThread(s, "b1")
  /\ Inserted
  /\ UNCHANGED <<now, isRunning, ac, loops, sessionToThread, pendingStart, nextThread,
                 crashes, hist, createOk, startIgnored, lifeAttempts, call>>
  /\ UNCHANGED Outside

\* processMessage up to await postWebhook(...), postDiscordWebhook up to await doRequest()
DeliveryStarts(showErrorAlert) ==
  /\ http.pc = "idle"
  /\ rows # {}
  /\ http' = [pc |-> "req1",
              wait |-> RequestOf(Current, firstUserTextBySession, lastSessionInfo).wait,
              showErrorAlert |-> showErrorAlert,
              requests |-> 1, sleeps |-> <<>>, alerts |-> <<>>,
              result |-> <<>>, error |-> <<>>]
  /\ hist' = Called(hist, <<Current.id>>)
  /\ UNCHANGED <<rows, nextId, now, isRunning, ac, loops, sessionToThread, pendingStart,
                 nextThread, crashes, createOk, startIgnored, insOrder, lifeAttempts,
                 call, webhookUrl, stops, linked, firstUserTextBySession,
                 lastSessionInfo, sent>>
  /\ UNCHANGED Beside

\* postWebhook has returned or thrown: the rest of processMessage
DeliverySettles ==
  /\ http.pc \in {"returned", "threw"}
  /\ LET m == Current
         s == m.sessionId
         T == nextThread
         created == http.pc = "returned" /\ m.threadId = NULL
         valid == created /\ http.result # <<>>
     IN /\ rows' = IF http.pc = "returned"
                   THEN IF valid THEN delete(updateThreadId(rows, s, T), m.id)
                        ELSE delete(rows, m.id)
                   ELSE IF retryAllowed(m.retryCount)
                        THEN updateRetryCount(rows, m.id, m.retryCount + 1, "error")
                        ELSE delete(rows, m.id)
        /\ hist' = IF http.pc = "returned"
                   THEN [hist EXCEPT ![m.id] = Gone("success")]
                   ELSE IF retryAllowed(m.retryCount)
                        THEN [hist EXCEPT ![m.id].fails = @ + 1,
                                          ![m.id].upd = Append(@, m.retryCount + 1)]
                        ELSE [hist EXCEPT ![m.id] = Gone("discard")]
        /\ nextThread' = IF created THEN nextThread + 1 ELSE nextThread
        /\ createOk' = IF created THEN [createOk EXCEPT ![s] = @ + 1] ELSE createOk
        /\ sessionToThread' = IF valid THEN [sessionToThread EXCEPT ![s] = T]
                              ELSE sessionToThread
        /\ linked' = IF valid /\ linked[s] = NULL THEN [linked EXCEPT ![s] = T] ELSE linked
        /\ sent' = [sent EXCEPT ![m.id] = IF http.pc = "threw" /\ retryAllowed(m.retryCount)
                                           THEN @ + http.requests ELSE 0]
  /\ http' = NoHttp
  /\ UNCHANGED <<nextId, now, isRunning, ac, loops, pendingStart, crashes, startIgnored,
                 insOrder, lifeAttempts, call, webhookUrl, stops, firstUserTextBySession,
                 lastSessionInfo>>
  /\ UNCHANGED Beside

NextRetry ==
  \/ \E s \in Sessions : RetryEnqueue(s)
  \/ \E showErrorAlert \in BOOLEAN : DeliveryStarts(showErrorAlert)
  \/ \E resp \in Responses : FirstResponse(resp)
  \/ SleepDone
  \/ \E resp \in Responses : RetryResponse(resp)
  \/ FetchRejects
  \/ DeliverySettles

SpecRetry == Init /\ [][NextRetry]_vars

\* ----------------------------------------- text parts and their messages
Parts == 1..MaxParts

\* part.messageID: parts 1 and 2 belong to message m1, the others to m2
MessageOf(p) == IF p <= 2 THEN "m1" ELSE "m2"

\* part.sessionID
SessionOf(p) == IF MessageOf(p) = "m1" THEN "s1" ELSE "s2"

\* a text part as one message.part.updated event delivers it: still being
\* written (no time.end), finished, or finished with a blank text
Deliveries == {[end |-> FALSE, text |-> "text"], [end |-> TRUE, text |-> "text"],
               [end |-> TRUE, text |-> ""]}

Snapshot(p, d) == [id |-> p, end |-> d.end, text |-> d.text]

\* what one handler run of handleTextPart calls reads and writes;
\* started: startWorkerIfNeeded() has been reached
TextState ==
  [sentIds |-> sentTextPartIds, first |-> firstUserTextBySession, store |-> rows,
   id |-> nextId, order |-> insOrder, parts |-> enqueuedParts, started |-> FALSE]

\* handleTextPart({part, role, sessionID, messageID, replay}): an assistant
\* part without time.end is left for later unless it is replayed; a partID
\* passes once; a blank user text is dropped; the first user text is
\* remembered; the session-started embed and the text are enqueued;
\* startWorkerIfNeeded()
handleTextPart(st, part, role, replay) ==
  LET s == SessionOf(part.id)
      n == IF ~webhookUrl THEN 0 ELSE IF role = "user" /\ StartedEmbedDue(s) THEN 2 ELSE 1
      first == IF n = 2
               THEN enqueue(st.store, st.id, s, sessionToThread[s], "started", now)
               ELSE st.store
  IN IF ~replay /\ role = "assistant" /\ ~part.end THEN st
     ELSE IF part.id \in st.sentIds THEN st
     ELSE IF role = "user" /\ part.text = ""
     THEN [st EXCEPT !.sentIds = @ \cup {part.id}]
     ELSE [sentIds |-> st.sentIds \cup {part.id},
           first |-> IF role = "user" /\ st.first[s] = ""
                     THEN [st.first EXCEPT ![s] = "text"] ELSE st.first,
           store |-> IF n = 0 THEN st.store
                     ELSE enqueue(first, st.id + n - 1, s, sessionToThread[s], role, now),
           id |-> st.id + n,
           order |-> st.order \o [i \in 1..n |-> st.id + i - 1],
           parts |-> IF n = 0 THEN st.parts ELSE Append(st.parts, part),
           started |-> TRUE]

\* mutant: the held parts are replayed newest first
RECURSIVE Replay_newestFirst(_, _, _)
Replay_newestFirst(st, held, role) ==
  IF held = <<>> THEN st
  ELSE Replay_newestFirst(handleTextPart(st, held[Len(held)], role, TRUE),
                          SubSeq(held, 1, Len(held) - 1), role)

\* for (const part of pendingParts) await handleTextPart({..., replay: true})
RECURSIVE Replay(_, _, _)
Replay(st, held, role) ==
  IF held = <<>> THEN st
  ELSE Replay(handleTextPart(st, Head(held), role, TRUE), Tail(held), role)

\* the state after the handleTextPart calls of one handler run
TextHandled(st) ==
  /\ st.id - 1 <= MaxMsgs
  /\ st.started => CanStart
  /\ rows' = st.store
  /\ nextId' = st.id
  /\ insOrder' = st.order
  /\ sentTextPartIds' = st.sentIds
  /\ firstUserTextBySession' = st.first
  /\ enqueuedParts' = st.parts
  /\ IF st.started
     THEN LET w == start(st.store)
          IN /\ loops' = [l \in LoopIds |->
                            IF loops[l].pc = "none" /\ w.loops[l].pc = "fetch1"
                            THEN [w.loops[l] EXCEPT
                                    !.req = RequestOf(w.loops[l].msg, st.first, lastSessionInfo)]
                            ELSE w.loops[l]]
             /\ isRunning' = w.isRunning
             /\ ac' = w.ac
             /\ hist' = Called(hist, w.called)
             /\ lifeAttempts' = Min(2, lifeAttempts + Len(w.called))
             /\ startIgnored' = (startIgnored \/ isRunning)
     ELSE UNCHANGED <<loops, isRunning, ac, hist, lifeAttempts, startIgnored>>

\* message.part.updated for a text part: held while the role of its message
\* is unknown, else handleTextPart
PartUpdated(p, d) ==
  /\ IF messageRoleById[MessageOf(p)] = "none"
     THEN /\ Len(pendingTextPartsByMessageId[MessageOf(p)]) < MaxHeld
          /\ pendingTextPartsByMessageId' =
               [pendingTextPartsByMessageId EXCEPT
                  ![MessageOf(p)] = Append(@, Snapshot(p, d))]
          /\ UNCHANGED <<rows, nextId, insOrder, sentTextPartIds, firstUserTextBySession,
                         enqueuedParts, loops, isRunning, ac, hist, lifeAttempts,
                         startIgnored>>
     ELSE /\ TextHandled(handleTextPart(TextState, Snapshot(p, d),
                                        messageRoleById[MessageOf(p)], FALSE))
          /\ UNCHANGED pendingTextPartsByMessageId
  /\ UNCHANGED <<now, sessionToThread, pendingStart, nextThread, crashes, createOk, call,
                 lastSessionInfo, messageRoleById>>
  /\ UNCHANGED <<Config, sent, linked, Registration, Fallback, lifeFirstId>>

\* message.updated with role user or assistant: the role is remembered and
\* the parts held for the message are replayed, once
MessageUpdated(m, role) ==
  /\ messageRoleById[m] \in {"none", role}
  /\ messageRoleById' = [messageRoleById EXCEPT ![m] = role]
  /\ IF pendingTextPartsByMessageId[m] = <<>>
     THEN UNCHANGED <<pendingTextPartsByMessageId, rows, nextId, insOrder, sentTextPartIds,
                      firstUserTextBySession, enqueuedParts, loops, isRunning, ac, hist,
                      lifeAttempts, startIgnored>>
     ELSE /\ pendingTextPartsByMessageId' = [pendingTextPartsByMessageId EXCEPT ![m] = <<>>]
          /\ TextHandled(Replay(TextState, pendingTextPartsByMessageId[m], role))
  /\ UNCHANGED <<now, sessionToThread, pendingStart, nextThread, crashes, createOk, call,
                 lastSessionInfo>>
  /\ UNCHANGED <<Config, sent, linked, Registration, Fallback, lifeFirstId>>

\* the clock stands still and every request is answered with a 2xx here
NextParts ==
  \/ \E p \in Parts, d \in Deliveries : PartUpdated(p, d)
  \/ \E m \in Messages, role \in {"user", "assistant"} : MessageUpdated(m, role)
  \/ \E l \in LoopIds, valid \in BOOLEAN : PostOk(l, valid)
  \/ \E l \in LoopIds : Wake(l)

SpecParts == Init /\ [][NextParts]_vars

\* ------------------------------------------------- the registration guard
\* mutant: the guard is not looked at
plugin_noGuard ==
  [registered |-> TRUE, instances |-> instances + 1, noopHandlers |-> noopHandlers]

\* plugin({client}): if (globalWithGuard[GLOBAL_GUARD_KEY]) return { event: async () => {} };
\* else the guard is set and database, queue and worker are constructed
plugin ==
  IF registered
  THEN [registered |-> TRUE, instances |-> instances, noopHandlers |-> noopHandlers + 1]
  ELSE [registered |-> TRUE, instances |-> instances + 1, noopHandlers |-> noopHandlers]

\* the host initializes the plugin again in this process (the module was reloaded)
PluginAgain ==
  /\ noopHandlers + instances - 1 < MaxInits
  /\ registered' = plugin.registered
  /\ instances' = plugin.instances
  /\ noopHandlers' = plugin.noopHandlers
  /\ UNCHANGED <<rows, nextId, now, isRunning, ac, loops, sessionToThread, pendingStart,
                 nextThread, crashes, hist, createOk, startIgnored, insOrder,
                 lifeAttempts, call, noopEvents>>
  /\ UNCHANGED <<webhookUrl, http, stops, linked, firstUserTextBySession, lastSessionInfo,
                 sent, TextParts, Fallback, lifeFirstId>>

\* an event given to the handler of a later initialization: async () => {}
NoopEvent ==
  /\ noopHandlers > 0
  /\ noopEvents < MaxNoopEvents
  /\ noopEvents' = noopEvents + 1
  /\ UNCHANGED <<rows, nextId, now, isRunning, ac, loops, sessionToThread, pendingStart,
                 nextThread, crashes, hist, createOk, startIgnored, insOrder,
                 lifeAttempts, call, registered, instances, noopHandlers>>
  /\ UNCHANGED <<webhookUrl, http, stops, linked, firstUserTextBySession, lastSessionInfo,
                 sent, TextParts, Fallback, lifeFirstId>>

\* the clock stands still here: rows are ordered by id alone
NextGuard ==
  \/ \E s \in Sessions : HandleSync(s)
  \/ \E l \in LoopIds : LoopStep(l)
  \/ PluginAgain
  \/ NoopEvent

SpecGuard == Init /\ [][NextGuard]_vars

\* ------------------------------------------------- the fallback webhook
\* the process was started with DISCORD_WEBHOOK_FALLBACK_URL set or unset
InitFallback == Constructed /\ fallbackWebhookUrl \in BOOLEAN

\* the request postFallbackIfNeeded hands to postDiscordWebhook: no wait, no thread
FallbackRequest(showErrorAlert) ==
  [pc |-> "req1", wait |-> FALSE, showErrorAlert |-> showErrorAlert,
   requests |-> 1, sleeps |-> <<>>, alerts |-> <<>>, result |-> <<>>, error |-> <<>>]

\* if (!fallbackUrl || !mention) return
FallbackDue(mention) == fallbackWebhookUrl /\ mention

\* permission.asked, session.idle, session.error up to the first await:
\* enqueueToThread; postFallbackIfNeeded up to await postDiscordWebhook(...), or
\* to its early return (mention: the mention of this event type is configured)
HandleMention(s, mention, showErrorAlert) ==
  /\ ~webhookUrl \/ nextId <= MaxMsgs
  /\ rows' = enqueueToThread(s, "b1")
  /\ Inserted
  /\ IF FallbackDue(mention)
     THEN /\ http.pc = "idle"
          /\ http' = FallbackRequest(showErrorAlert)
          /\ awaitingFallback' = nextId
          /\ UNCHANGED pendingStart
     ELSE /\ pendingStart < MaxPending
          /\ pendingStart' = pendingStart + 1
          /\ UNCHANGED <<http, awaitingFallback>>
  /\ UNCHANGED <<now, isRunning, ac, loops, sessionToThread, nextThread, crashes,
                 hist, createOk, startIgnored, lifeAttempts, call>>
  /\ UNCHANGED <<webhookUrl, stops, linked, firstUserTextBySession, lastSessionInfo, sent,
                 TextParts, Registration, fallbackWebhookUrl, lifeFirstId>>

\* mutant: an error of the fallback post leaves the handler
FallbackSettles_throws ==
  /\ awaitingFallback # 0
  /\ http.pc \in {"returned", "threw"}
  /\ http.pc = "returned" => CanStart
  /\ http' = NoHttp
  /\ awaitingFallback' = 0
  /\ IF http.pc = "returned"
     THEN Started(rows, hist)
     ELSE UNCHANGED <<loops, isRunning, ac, hist, lifeAttempts, startIgnored>>
  /\ UNCHANGED <<rows, nextId, now, sessionToThread, pendingStart, nextThread, crashes,
                 createOk, insOrder, call>>
  /\ UNCHANGED <<webhookUrl, stops, linked, firstUserTextBySession, lastSessionInfo, sent,
                 TextParts, Registration, fallbackWebhookUrl, lifeFirstId>>

\* the fallback post has returned, or thrown into the empty catch of
\* postFallbackIfNeeded: startWorkerIfNeeded()
FallbackSettles ==
  /\ awaitingFallback # 0
  /\ http.pc \in {"returned", "threw"}
  /\ CanStart
  /\ http' = NoHttp
  /\ awaitingFallback' = 0
  /\ Started(rows, hist)
  /\ UNCHANGED <<rows, nextId, now, sessionToThread, pendingStart, nextThread, crashes,
                 createOk, insOrder, call>>
  /\ UNCHANGED <<webhookUrl, stops, linked, firstUserTextBySession, lastSessionInfo, sent,
                 TextParts, Registration, fallbackWebhookUrl, lifeFirstId>>

\* the clock stands still and the thread webhook answers with a 2xx here
NextFallback ==
  \/ \E s \in Sessions, mention \in BOOLEAN, showErrorAlert \in BOOLEAN :
       HandleMention(s, mention, showErrorAlert)
  \/ \E resp \in Responses : FirstResponse(resp)
  \/ SleepDone
  \/ \E resp \in Responses : RetryResponse(resp)
  \/ FetchRejects
  \/ FallbackSettles
  \/ startWorkerIfNeeded
  \/ \E l \in LoopIds, valid \in BOOLEAN : PostOk(l, valid)
  \/ \E l \in LoopIds : Wake(l)

SpecFallback == InitFallback /\ [][NextFallback]_vars

\* =================================================================== claims
Processing(id) == {l \in LoopIds : loops[l].msg.id = id /\ loops[l].pc # "none"}

Removed(id) == id \in Ids(rows) /\ id \notin Ids(rows')

CallStarts(id) == hist'[id].calls > hist[id].calls

\* C1: within one process lifetime at most one thread-creation call
\* (postWebhook with wait=true and thread_name) per session returns successfully.
C1_OneCreationPerSession ==
  \A s \in Sessions : createOk[s] <= 1

\* C2: the worker removes a row only when postWebhook returned for that row, or
\* after a failed attempt while the stored retryCount is already >= 5, and then an
\* error alert has been emitted; nothing else removes a row.
C2_DeleteOnlyOnSuccessOrBound ==
  [][\A id \in 1..MaxMsgs :
       Removed(id) =>
         \E l \in Processing(id) :
           \/ /\ loops[l].pc \in {"fetch1", "fetch2"}
              /\ hist'[id].del = "success"
           \/ /\ loops[l].pc = "alertDiscard"
              /\ hist[id].fails >= 1
              /\ RowOf(rows, id).retryCount >= 5
              /\ hist[id].alerts >= 1
              /\ hist'[id].del = "discard"]_vars

C2_Witness ==
  \E id \in 1..MaxMsgs : hist[id].del = "discard" /\ id \notin Ids(rows)

\* C3: for a row whose every attempt fails, failures 1..5 write retryCount
\* 1,2,3,4,5 in that order and keep the row; the 6th failure writes nothing,
\* emits exactly one error alert and deletes the row.
OneToN(n) == [i \in 1..n |-> i]

C3_RetrySequence ==
  [][/\ \A r \in rows' :
          LET h == hist'[r.id]
          IN h.succ = 0 =>
               /\ h.fails <= 6
               /\ h.upd = OneToN(Min(h.fails, 5))
               /\ r.retryCount = Min(h.fails, 5)
               /\ h.alerts = (IF h.fails = 6 THEN 1 ELSE 0)
     /\ \A id \in 1..MaxMsgs :
          Removed(id) /\ hist'[id].del = "discard" =>
            /\ hist[id].fails = 6
            /\ hist[id].upd = <<1, 2, 3, 4, 5>>
            /\ hist[id].alerts = 1
            /\ RowOf(rows, id).retryCount = 5]_vars

C3_Witness ==
  \E l \in LoopIds :
    /\ loops[l].pc = "alertDiscard"
    /\ hist[loops[l].msg.id].fails = 6
    /\ hist[loops[l].msg.id].upd = <<1, 2, 3, 4, 5>>
    /\ loops[l].msg.id \in Ids(rows)

\* C4: a delivery attempt starts only for the row that is first in
\* (createdAt, id) order among the rows then queued, and a row is posted into a
\* thread only after the creation call of that thread has returned.
C4_HeadOfLine ==
  [][\A id \in 1..MaxMsgs :
       CallStarts(id) =>
         /\ id \in Ids(rows')
         /\ \A r \in rows' : r.id # id => RowBefore(RowOf(rows', id), r)
         /\ RowOf(rows', id).threadId < nextThread']_vars

C4_Witness ==
  \E l \in LoopIds :
    /\ loops[l].pc = "fetch1"
    /\ loops[l].msg.retryCount >= 1
    /\ \E r \in rows : r.id # loops[l].msg.id /\ hist[r.id].calls = 0
                       /\ r.sessionId # loops[l].msg.sessionId

\* C5: however many start() calls overlap, one poll loop is alive, at most one
\* postWebhook call is in flight, and every queued row is handed to the
\* transport once per failure it has had plus once while it is in flight
\* (so exactly once when every delivery succeeds).
C5_SingleFlight ==
  /\ Cardinality({l \in LoopIds : Alive(l)}) <= 1
  /\ Cardinality({l \in LoopIds : InFlight(l)}) <= 1
  /\ \A r \in rows :
       hist[r.id].calls =
         hist[r.id].fails + Cardinality({l \in Processing(r.id) : InFlight(l)})

C5_Witness ==
  /\ startIgnored
  /\ \E l \in LoopIds : InFlight(l) /\ hist[loops[l].msg.id].calls = 1
  /\ \E id \in 1..MaxMsgs : hist[id].del = "success"

\* C6: with every transport call, timer and alert settling eventually and no
\* external stop(), every enqueued row eventually leaves the queue, and the
\* worker ends Idle with an empty queue.  Producers enqueue finitely many rows
\* (MaxMsgs), so "eventually always empty" also says each row is removed.
C6_EventuallyDrained ==
  <>[](rows = {} /\ ~isRunning /\ \A l \in LoopIds : ~Alive(l))

C6_Witness ==
  /\ rows = {}
  /\ ~isRunning
  /\ nextId > MaxMsgs
  /\ \A id \in 1..MaxMsgs : hist[id].del # "no"

\* C7: a poll iteration whose dequeue is empty calls no transport, leaves
\* running false and ends the loop; the worker goes from Running to Idle only
\* with an empty queue.
NoTransportCall == \A id \in 1..MaxMsgs : ~CallStarts(id)

C7_AutoStop ==
  [][/\ \A l \in LoopIds :
          loops[l].pc = "pollsleep" /\ ~loops[l].aborted /\ loops'[l].pc # "pollsleep" =>
            IF rows' = {}
            THEN ~isRunning' /\ loops'[l].pc = "none" /\ NoTransportCall
            ELSE isRunning' /\ loops'[l].pc = "fetch1"
     /\ ~isRunning /\ (StartCall \/ startWorkerIfNeeded \/ \E s \in Sessions : HandleSync(s)) =>
            IF rows' = {}
            THEN ~isRunning' /\ (\A l \in LoopIds : loops'[l].pc = "none") /\ NoTransportCall
            ELSE isRunning' /\ \E l \in LoopIds : loops'[l].pc = "fetch1"
     /\ isRunning /\ ~isRunning' => rows' = {}]_vars

C7_Witness ==
  /\ ~isRunning
  /\ ac # 0
  /\ rows = {}
  /\ \A l \in LoopIds : ~Alive(l)
  /\ \E id \in 1..MaxMsgs : hist[id].del = "success"

\* C8: a process stop removes no row and keeps every row's retryCount and
\* assigned threadId; the stored retryCount always counts the failures of all
\* process lifetimes (up to 5); an attempt is made with the row as stored, and
\* start() on a non-empty queue attempts a row.
C8_CrashSurvival ==
  [][/\ crashes' # crashes =>
          /\ Ids(rows') = Ids(rows)
          /\ \A r \in rows :
               /\ RowOf(rows', r.id).retryCount = r.retryCount
               /\ RowOf(rows', r.id).lastError = r.lastError
               /\ r.threadId # NULL => RowOf(rows', r.id).threadId = r.threadId
     /\ \A r \in rows' : r.retryCount = Min(hist'[r.id].fails, 5)
     /\ \A id \in 1..MaxMsgs :
          CallStarts(id) =>
            \E l \in LoopIds : loops'[l].pc = "fetch1" /\ loops'[l].msg \in rows'
                               /\ loops'[l].msg.id = id
     /\ StartCall /\ ~isRunning /\ rows # {} =>
          \E id \in Ids(rows) : CallStarts(id)]_vars

C8_Witness ==
  /\ crashes >= 1
  /\ lifeAttempts = 1
  /\ \E l \in LoopIds :
       /\ loops[l].pc = "fetch1"
       /\ loops[l].msg.retryCount >= 1
       /\ loops[l].msg.threadId # NULL

\* C9: dequeue(n) returns the first min(n, count) rows still queued, in the
\* order in which enqueue inserted them.
InStore(id) == id \in Ids(rows)

C9_Fifo ==
  call.op = "dequeue" =>
    LET live == SelectSeq(insOrder, InStore)
        n == Min(call.limit, count(rows))
    IN /\ Len(call.res) = n
       /\ \A i \in 1..n : call.res[i] = RowOf(rows, live[i])

C9_Witness ==
  /\ call.op = "dequeue"
  /\ Len(call.res) = 2
  /\ count(rows) = 3
  /\ call.res[1].sessionId # call.res[2].sessionId
  /\ call.res[1].createdAt = call.res[2].createdAt

\* C10: updateThreadId(s, T) sets threadId to T on exactly the rows of session s
\* whose threadId is null and changes no other row and no other field.
C10_UpdateThreadIdFrame ==
  [][\A s \in Sessions, T \in ThreadIdsQ :
       QUpdateThreadId(s, T) =>
         /\ Ids(rows') = Ids(rows)
         /\ Cardinality(rows') = Cardinality(rows)
         /\ \A r \in rows :
              IF r.sessionId = s /\ r.threadId = NULL
              THEN [r EXCEPT !.threadId = T] \in rows'
              ELSE r \in rows']_vars

C10_Witness ==
  /\ call.op = "updateThreadId"
  /\ call.limit >= 1
  /\ \E r \in rows : r.sessionId = call.s /\ r.threadId = call.t
  /\ \E r \in rows : r.sessionId = call.s /\ r.threadId \notin {NULL, call.t}
  /\ \E r \in rows : r.sessionId # call.s /\ r.threadId = NULL

\* C11: dequeue(limit) leaves every row as it was (count() included), returns at
\* most limit rows, returns the empty sequence on an empty queue, and a second
\* dequeue with nothing changed in between returns the same rows.
C11_DequeueNonDestructive ==
  [][\A limit \in LimitsQ :
       QDequeue(limit) =>
         /\ rows' = rows
         /\ count(rows') = count(rows)
         /\ Len(call'.res) <= limit
         /\ \A i \in 1..Len(call'.res) : call'.res[i] \in rows'
         /\ rows = {} => call'.res = <<>>
         /\ call.op = "dequeue" /\ call.limit = limit => call'.res = call.res
         /\ call.op = "dequeue" /\ call.limit < limit =>
              SubSeq(call'.res, 1, Len(call.res)) = call.res]_vars

C11_Witness ==
  /\ call.op = "dequeue"
  /\ call.limit = 2
  /\ Len(call.res) = 2
  /\ count(rows) = 3
  /\ \A i \in 1..2 : call.res[i] \in rows


\* C12: delete(id) removes the row with that id and nothing else; a second
\* delete(id) directly after the first, and a delete of an id that is not
\* queued, leave the queue exactly as it was.
C12_DeleteIdempotent ==
  [][\A id \in 1..MaxQMsgs :
       QDeleteCall(id) =>
         /\ rows' \subseteq rows
         /\ Ids(rows') = Ids(rows) \ {id}
         /\ id \notin Ids(rows) => rows' = rows
         /\ call.op = "delete" /\ call.id = id => rows' = rows]_vars

C12_Witness ==
  /\ call.op = "delete"
  /\ call.n = 2
  /\ call.id < nextId
  /\ call.id \notin Ids(rows)
  /\ rows # {}


\* C13: when the creation call of a row with null threadId returns a thread id
\* T, that call was the only transport call of the attempt and no post follows
\* it; the queued rows of the session that had no thread carry T afterwards,
\* sessionToThread maps the session to T, and the row is deleted.
C13_ThreadCreation ==
  [][\A l \in LoopIds :
       PostOk(l, TRUE) /\ loops[l].msg.threadId = NULL =>
         LET m == loops[l].msg
             s == m.sessionId
             T == nextThread
         IN /\ hist[m.id].calls = hist[m.id].fails + 1
            /\ ~InFlight(l)'
            /\ \A id \in 1..MaxMsgs : ~CallStarts(id)
            /\ m.id \notin Ids(rows')
            /\ Ids(rows') = Ids(rows) \ {m.id}
            /\ \A r \in rows : r.id # m.id =>
                 IF r.sessionId = s /\ r.threadId = NULL
                 THEN [r EXCEPT !.threadId = T] \in rows'
                 ELSE r \in rows'
            /\ sessionToThread'[s] = T
            /\ \A o \in Sessions \ {s} : sessionToThread'[o] = sessionToThread[o]
            /\ hist'[m.id].del = "success"]_vars

C13_Witness ==
  \E s \in Sessions :
    /\ sessionToThread[s] # NULL
    /\ createOk[s] = 1
    /\ \E id \in 1..MaxMsgs : hist[id].del = "success"
    /\ \E r \in rows : r.sessionId = s /\ r.threadId = sessionToThread[s]
                       /\ hist[r.id].calls = 0
    /\ \E l \in LoopIds : loops[l].pc = "pollsleep"


\* C14: a 429 on the first request is followed by exactly one sleep and exactly
\* one more request; a call never makes more than 2 requests; a 2xx answer to
\* the retry makes the call return, any other answer (a 429 included) makes it
\* throw with no further retry.
C14_RateLimitRetryOnce ==
  [][/\ \A resp \in Responses :
          FirstResponse(resp) /\ resp.status = HTTP_STATUS_TOO_MANY_REQUESTS =>
            /\ http'.pc = "sleep"
            /\ Len(http'.sleeps) = 1
            /\ http'.requests = 1
     /\ http.pc = "sleep" =>
          /\ http'.pc = "req2"
          /\ http'.requests = 2
          /\ http'.sleeps = http.sleeps
     /\ \A resp \in Responses :
          RetryResponse(resp) =>
            /\ http'.requests = 2
            /\ http'.sleeps = http.sleeps
            /\ IF Ok(resp)
               THEN http'.pc = "returned" /\ http'.error = <<>>
               ELSE http'.pc = "threw" /\ http'.error # <<>>
                    /\ http'.error[1].status = resp.status
     /\ http'.pc # "idle" =>
          /\ http'.requests <= 2
          /\ Len(http'.sleeps) = (IF http'.requests = 2 \/ http'.pc = "sleep" THEN 1 ELSE 0)]_vars

C14_Witness ==
  /\ http.pc = "threw"
  /\ http.requests = 2
  /\ Len(http.sleeps) = 1
  /\ http.error[1].status = HTTP_STATUS_TOO_MANY_REQUESTS

\* C15: a first response that is neither 2xx nor 429 makes the call throw an
\* error carrying the status and the body text, after one request and no sleep.
C15_OtherErrorNoRetry ==
  [][\A resp \in Responses :
       FirstResponse(resp) /\ ~Ok(resp) /\ resp.status # HTTP_STATUS_TOO_MANY_REQUESTS =>
         /\ http'.pc = "threw"
         /\ http'.error = <<[status |-> resp.status, text |-> resp.body]>>
         /\ http'.requests = 1
         /\ http'.sleeps = <<>>
         /\ http'.result = <<>>]_vars

C15_Witness ==
  /\ http.pc = "threw"
  /\ http.requests = 1
  /\ http.sleeps = <<>>
  /\ http.error[1].status = 500
  /\ http.error[1].text.json = "object"

\* C16: a 2xx response (to the first request or to the retry) makes the call
\* return, never throw; it returns the pair {id, channel_id} exactly when wait
\* was requested and the body is a JSON object whose id and channel_id are both
\* strings, and undefined otherwise.
C16_SuccessResult ==
  [][\A resp \in Responses :
       (FirstResponse(resp) \/ RetryResponse(resp)) /\ Ok(resp) =>
         /\ http'.pc = "returned"
         /\ http'.error = <<>>
         /\ http'.result \in {<<>>, Pair}
         /\ http'.result = Pair <=>
              /\ http.wait
              /\ resp.body.json = "object"
              /\ resp.body.id = "string"
              /\ resp.body.channel_id = "string"]_vars

C16_Witness ==
  /\ http.pc = "returned"
  /\ http.requests = 2
  /\ http.wait
  /\ http.result = Pair


\* C17: while no webhook URL is configured, no event changes the queue (no row
\* added, modified or removed) and no HTTP request gets a response.
C17_NoUrlQueueUntouched ==
  [][~webhookUrl /\ ~webhookUrl' =>
       /\ rows' = rows
       /\ \A l \in LoopIds : loops'[l].pc \notin {"rlsleep", "fetch2"}]_vars


\* C18: once the thread-creation request of a row has failed, the row is sent
\* again as a plain post to the channel (no thread_name, no thread_id), and it
\* leaves the queue only delivered.
C18_FallbackToChannel ==
  [][\A id \in 1..MaxMsgs :
       /\ CallStarts(id) /\ hist[id].fails >= 1 /\ RowOf(rows', id).threadId = NULL =>
            RequestKind(RowOf(rows', id)) = "direct"
       /\ Removed(id) /\ RowOf(rows, id).threadId = NULL =>
            hist'[id].del = "success"]_vars


\* C19: when stop() is followed by start() before the stopped loop has exited,
\* there are still never two postWebhook calls in flight and no row is held by
\* two loops.
C19_RestartAfterStopSafe ==
  /\ Cardinality({l \in LoopIds : InFlight(l)}) <= 1
  /\ \A id \in 1..MaxMsgs : Cardinality(Processing(id)) <= 1

\* C20: a loop whose signal has been aborted by stop() begins no further
\* inter-batch sleep, makes no further dequeue and begins no further delivery,
\* and it exits only after the delivery it had in flight has done its
\* bookkeeping.
C20_CooperativeStop ==
  [][\A l \in LoopIds :
       loops[l].aborted =>
         /\ ~(loops[l].pc # "pollsleep" /\ loops'[l].pc = "pollsleep")
         /\ ~(loops[l].pc \notin {"fetch1", "rlsleep", "fetch2"} /\ loops'[l].pc = "fetch1")
         /\ loops[l].pc \in {"fetch1", "rlsleep", "fetch2", "alertRetry", "alertDiscard"} =>
              loops'[l].pc # "none"]_vars


\* C20 as amended: a loop whose signal has been aborted by stop() makes no
\* further dequeue and begins no further delivery; it exits only after the
\* delivery it had in flight has done its bookkeeping; it still begins the
\* inter-batch sleep that follows that delivery, and exits without a dequeue
\* when that sleep (or the sleep it was in when stop() came) is over.
C20_CooperativeStopAmended ==
  [][\A l \in LoopIds :
       loops[l].aborted =>
         /\ ~(loops[l].pc \notin {"fetch1", "rlsleep", "fetch2"} /\ loops'[l].pc = "fetch1")
         /\ loops[l].pc \in {"fetch1", "rlsleep", "fetch2", "alertRetry", "alertDiscard"} =>
              loops'[l].pc # "none"
         /\ loops[l].pc # "pollsleep" /\ loops'[l].pc = "pollsleep" =>
              loops[l].pc \in {"fetch1", "fetch2", "alertRetry", "alertDiscard"}
         /\ loops[l].pc = "pollsleep" /\ loops'[l].pc # "pollsleep" =>
              /\ loops'[l].pc = "none"
              /\ rows' = rows
              /\ \A id \in 1..MaxMsgs : ~CallStarts(id)]_vars

C20_Witness ==
  /\ stops >= 1
  /\ ~isRunning
  /\ rows # {}
  /\ \E id \in 1..MaxMsgs : hist[id].del = "success"
  /\ \E l \in LoopIds : loops[l].aborted /\ loops[l].pc = "pollsleep"

\* C21: worker.running is true exactly when a poll loop is alive (started and
\* not yet returned), also after stop() and after a queue operation has thrown
\* inside the loop.
C21_RunningIffLoopAlive ==
  isRunning <=> \E l \in LoopIds : Alive(l)

C23_UnlinkedCreationDeletesRow ==
  [][\A l \in LoopIds :
       PostOk(l, FALSE) /\ loops[l].msg.threadId = NULL =>
         LET m == loops[l].msg
         IN /\ m \in rows
            /\ rows' = rows \ {m}
            /\ \A r \in rows' : r.sessionId = m.sessionId => r.threadId = NULL
            /\ sessionToThread' = sessionToThread
            /\ hist'[m.id].del = "success"
            /\ ~CallStarts(m.id)
            /\ \A k \in LoopIds : loops'[k].msg.id # m.id]_vars

C23_Witness ==
  \E s \in Sessions :
    /\ createOk[s] = 1
    /\ sessionToThread[s] = NULL
    /\ \E id \in 1..MaxMsgs : hist[id].del = "success"
    /\ \E r \in rows : r.sessionId = s /\ r.threadId = NULL /\ hist[r.id].calls = 0
    /\ \E l \in LoopIds : loops[l].pc = "pollsleep"

\* C24: every row of a session for which a thread id has been stored, whether
\* it was queued before a process restart or enqueued after it, is sent as a
\* post into that thread; no thread-creation request is sent for that session
\* again.
C24_ThreadRecoveredAfterRestart ==
  \A l \in LoopIds :
    InFlight(l) /\ linked[loops[l].msg.sessionId] # NULL =>
      /\ RequestKind(loops[l].msg) = "thread"
      /\ loops[l].msg.threadId = linked[loops[l].msg.sessionId]

\* C25: within a process lifetime sessionToThread changes only in the step in
\* which a thread-creation call returns an id (onThreadCreated), the entry
\* written was empty before and receives the id returned; so onThreadCreated
\* runs at most once per session and no entry is overwritten.  Only a restart
\* empties the map.
C25_MapWrittenOnce ==
  [][/\ \A s \in Sessions :
          sessionToThread'[s] # sessionToThread[s] /\ crashes' = crashes =>
            /\ sessionToThread[s] = NULL
            /\ sessionToThread'[s] = nextThread
            /\ \E l \in LoopIds :
                 /\ PostOk(l, TRUE)
                 /\ loops[l].msg.sessionId = s
                 /\ loops[l].msg.threadId = NULL
     /\ \A l \in LoopIds :
          PostOk(l, TRUE) /\ loops[l].msg.threadId = NULL =>
            sessionToThread[loops[l].msg.sessionId] = NULL]_vars

C25_Witness ==
  \E s \in Sessions :
    /\ sessionToThread[s] # NULL
    /\ createOk[s] = 2
    /\ rows = {}

C27_RoutingByThreadId ==
  [][/\ \A id \in 1..MaxMsgs :
          CallStarts(id) =>
            \E l \in LoopIds :
              /\ loops'[l].pc = "fetch1"
              /\ loops'[l].msg = RowOf(rows', id)
              /\ IF RowOf(rows', id).threadId # NULL
                 THEN loops'[l].req = [wait |-> FALSE, thread_name |-> <<>>,
                                       thread_id |-> RowOf(rows', id).threadId]
                 ELSE /\ loops'[l].req.wait
                      /\ loops'[l].req.thread_id = NULL
                      /\ loops'[l].req.thread_name =
                           <<buildThreadName(firstUserTextBySession', lastSessionInfo',
                                          RowOf(rows', id).sessionId)>>
     /\ \A l \in LoopIds :
          /\ InFlight(l) /\ InFlight(l)' /\ loops'[l].msg.id = loops[l].msg.id
               /\ hist'[loops[l].msg.id].calls = hist[loops[l].msg.id].calls =>
               loops'[l].req = loops[l].req
          /\ InFlight(l) /\ ~InFlight(l)' /\ loops[l].req.thread_id # NULL =>
               /\ nextThread' = nextThread
               /\ createOk' = createOk
               /\ sessionToThread' = sessionToThread
               /\ rows' \subseteq rows \/ loops'[l].pc = "alertRetry"]_vars

C27_Witness ==
  \E l \in LoopIds :
    /\ loops[l].pc = "fetch2"
    /\ loops[l].msg \in rows
    /\ loops[l].req.thread_id # NULL
    /\ loops[l].req.thread_id = sessionToThread[loops[l].msg.sessionId]
    /\ loops[l].req.thread_name = <<>>
    /\ ~loops[l].req.wait
    /\ firstUserTextBySession[loops[l].msg.sessionId] = "text"

\* C28: for every queued message the worker makes at most MAX_RETRIES + 1 = 6
\* postWebhook calls, a call makes at most 2 HTTP requests, and so at most 12
\* HTTP requests are made for the message.
RequestsInProgress(id) ==
  IF http.pc # "idle" /\ rows # {} /\ Current.id = id THEN http.requests ELSE 0

C28_TwoTierRetryBound ==
  /\ MAX_RETRIES + 1 = 6
  /\ http.pc # "idle" => http.requests <= 2
  /\ \A id \in 1..MaxMsgs :
       /\ hist[id].calls <= 6
       /\ sent[id] + RequestsInProgress(id) <= 2 * hist[id].calls
       /\ sent[id] + RequestsInProgress(id) <= 12

C28_Witness ==
  /\ http.pc = "threw"
  /\ http.requests = 2
  /\ rows # {}
  /\ Current.retryCount = MAX_RETRIES
  /\ hist[Current.id].calls = 6
  /\ sent[Current.id] = 10

\* C29: after a 429 on the first request the call sleeps once, for the body's
\* retry_after when the body is JSON with a finite number >= 0 there, else for
\* the Retry-After header when that is a finite number >= 0, else for the
\* default wait; seconds are turned into milliseconds, rounded up.  The body
\* wins when both are usable.
Usable(r) == r.kind = "number" /\ r.value >= 0

C29_RateLimitWait ==
  [][\A resp \in Responses :
       FirstResponse(resp) /\ resp.status = HTTP_STATUS_TOO_MANY_REQUESTS =>
         /\ http'.pc = "sleep"
         /\ Len(http'.sleeps) = 1
         /\ http'.sleeps[1] * TicksPerSecond >=
              (IF resp.body.json = "object" /\ Usable(resp.body.retry_after)
               THEN resp.body.retry_after.value * MS_PER_SECOND
               ELSE IF Usable(resp.header)
               THEN resp.header.value * MS_PER_SECOND
               ELSE DEFAULT_RATE_LIMIT_WAIT_MS * TicksPerSecond)
         /\ (http'.sleeps[1] - 1) * TicksPerSecond <
              (IF resp.body.json = "object" /\ Usable(resp.body.retry_after)
               THEN resp.body.retry_after.value * MS_PER_SECOND
               ELSE IF Usable(resp.header)
               THEN resp.header.value * MS_PER_SECOND
               ELSE DEFAULT_RATE_LIMIT_WAIT_MS * TicksPerSecond)
            \/ http'.sleeps[1] = 0]_vars

C29_Witness ==
  /\ http.pc = "sleep"
  /\ http.requests = 1
  /\ http.sleeps = <<1>>

\* C30: for a session that has received a user text, whatever the order of its
\* events, a thread-creation request carries the thread_name derived from the
\* first user text; the session-started embed is queued once per session,
\* directly before a user text of that session.
C30_ThreadNamedByFirstUserText ==
  /\ \A l \in LoopIds :
       /\ InFlight(l)
       /\ loops[l].req.wait
       /\ firstUserTextBySession[loops[l].msg.sessionId] # ""
       => loops[l].req.thread_name = <<"userText">>
  /\ \A r \in rows :
       r.webhookBody = "started" =>
         /\ \A o \in rows : o.webhookBody = "started" /\ o.sessionId = r.sessionId => o = r
         /\ \E u \in rows : u.id = r.id + 1 /\ u.webhookBody = "user"
                            /\ u.sessionId = r.sessionId

\* C31: a text part that arrives while the role of its message is unknown is
\* held and enqueues nothing; the message.updated that supplies the role hands
\* every held part to handleTextPart, in arrival order, enqueues one row per
\* held partID (the part as it first arrived) and empties the held list; a
\* message.updated for a message with nothing held enqueues nothing.
FirstHeld(held, p) == CHOOSE i \in 1..Len(held) : held[i].id = p /\ \A k \in 1..(i - 1) : held[k].id # p

HeldIds(held) == {held[i].id : i \in 1..Len(held)}

C31_HeldPartsReplayedOnce ==
  [][/\ \A p \in Parts, d \in Deliveries :
          PartUpdated(p, d) /\ messageRoleById[MessageOf(p)] = "none" =>
            /\ pendingTextPartsByMessageId'[MessageOf(p)] =
                 Append(pendingTextPartsByMessageId[MessageOf(p)], Snapshot(p, d))
            /\ rows' = rows
            /\ nextId' = nextId
            /\ loops' = loops
            /\ sentTextPartIds' = sentTextPartIds
     /\ \A m \in Messages, role \in {"user", "assistant"} :
          MessageUpdated(m, role) =>
            LET held == pendingTextPartsByMessageId[m]
                old == Len(enqueuedParts)
                new == SubSeq(enqueuedParts', old + 1, Len(enqueuedParts'))
            IN /\ pendingTextPartsByMessageId'[m] = <<>>
               /\ SubSeq(enqueuedParts', 1, old) = enqueuedParts
               /\ nextId' - nextId = Len(new)
               /\ Ids(rows') \ Ids(rows) = nextId..(nextId' - 1)
               /\ HeldIds(held) \subseteq sentTextPartIds'
               /\ \A i \in 1..Len(new) :
                    /\ new[i].id \in HeldIds(held) \ sentTextPartIds
                    /\ new[i] = held[FirstHeld(held, new[i].id)]
                    /\ \A j \in (i + 1)..Len(new) :
                         FirstHeld(held, new[i].id) < FirstHeld(held, new[j].id)
               /\ \A p \in HeldIds(held) \ sentTextPartIds :
                    ~(role = "user" /\ held[FirstHeld(held, p)].text = "") =>
                      \E i \in 1..Len(new) : new[i].id = p]_vars

C31_Witness ==
  /\ messageRoleById["m1"] = "assistant"
  /\ pendingTextPartsByMessageId["m1"] = <<>>
  /\ Len(enqueuedParts) = 2
  /\ enqueuedParts[1] = [id |-> 2, end |-> FALSE, text |-> "text"]
  /\ enqueuedParts[2].id = 1
  /\ rows = {}

\* C32: a partID passes handleTextPart once, so at most one text row is
\* enqueued for it, whatever is replayed or delivered again; the text row of an
\* assistant part is the part as it arrived with time.end, and an assistant
\* part that arrives with time.end after arriving without it is enqueued then.
C32_PartDeduplication ==
  [][/\ \A i \in 1..Len(enqueuedParts'), j \in 1..Len(enqueuedParts') :
          enqueuedParts'[i].id = enqueuedParts'[j].id => i = j
     /\ nextId' - 1 = Len(enqueuedParts')
     /\ \A i \in 1..Len(enqueuedParts') :
          /\ enqueuedParts'[i].id \in sentTextPartIds'
          /\ messageRoleById'[MessageOf(enqueuedParts'[i].id)] = "assistant" =>
               enqueuedParts'[i].end
     /\ \A p \in Parts, d \in Deliveries :
          /\ PartUpdated(p, d)
          /\ messageRoleById[MessageOf(p)] = "assistant"
          /\ d.end
          => \E i \in 1..Len(enqueuedParts') :
               enqueuedParts'[i].id = p /\ enqueuedParts'[i].end]_vars

\* C33: an initialization after the first constructs nothing and returns a
\* handler whose events enqueue nothing, send nothing and start no worker; the
\* process never has more than one queue/worker pair.
C33_RegistrationGuard ==
  [][/\ PluginAgain =>
          /\ instances' = instances
          /\ noopHandlers' = noopHandlers + 1
          /\ <<rows, nextId, loops, isRunning, ac, hist, http>>' =
               <<rows, nextId, loops, isRunning, ac, hist, http>>
     /\ NoopEvent =>
          <<rows, nextId, loops, isRunning, ac, hist, http, pendingStart>>' =
            <<rows, nextId, loops, isRunning, ac, hist, http, pendingStart>>
     /\ registered'
     /\ instances' <= 1]_vars

C33_Witness ==
  /\ instances = 1
  /\ noopHandlers >= 1
  /\ noopEvents >= 1
  /\ isRunning
  /\ \E l \in LoopIds : InFlight(l)

\* C34: a fallback post is started only by a handler whose fallback URL and
\* mention are both configured; the handler has enqueued exactly its one row
\* for the thread before the post starts and the post itself adds no row and
\* involves no worker loop; when the post has returned or thrown, the row has
\* been enqueued (it is queued or the worker has dealt with it) and the handler
\* calls startWorkerIfNeeded: a non-empty queue then has a running worker.
C34_FallbackIndependent ==
  [][/\ http.pc = "idle" /\ http'.pc # "idle" =>
          /\ fallbackWebhookUrl
          /\ \E s \in Sessions, showErrorAlert \in BOOLEAN :
               /\ HandleMention(s, TRUE, showErrorAlert)
               /\ rows' = rows \cup {Row(nextId, s, sessionToThread[s], "b1", now)}
          /\ ~http'.wait
          /\ nextId' = nextId + 1
          /\ awaitingFallback' = nextId
          /\ <<loops, isRunning, hist>>' = <<loops, isRunning, hist>>
     /\ \A s \in Sessions, mention \in BOOLEAN, showErrorAlert \in BOOLEAN :
          HandleMention(s, mention, showErrorAlert) /\ ~(fallbackWebhookUrl /\ mention) =>
            /\ http' = http
            /\ Cardinality(rows') = Cardinality(rows) + 1
     /\ http.pc \in {"req1", "sleep", "req2"} =>
          /\ awaitingFallback' = awaitingFallback
          /\ awaitingFallback \in Ids(rows) \/ hist[awaitingFallback].del # "no"
          /\ nextId' > nextId => http' = http
     /\ FallbackSettles =>
          /\ awaitingFallback < nextId
          /\ awaitingFallback \in Ids(rows) \/ hist[awaitingFallback].del # "no"
          /\ rows' = rows
          /\ rows # {} => isRunning'
          /\ rows # {} /\ ~isRunning => \E l \in LoopIds : loops'[l].pc = "fetch1"]_vars

C34_Witness ==
  /\ http.pc = "threw"
  /\ awaitingFallback \in Ids(rows)
  /\ hist[awaitingFallback].calls = 0
  /\ ~isRunning

\* C35: enqueue adds exactly one row, with retryCount 0, lastError null and an
\* id greater than every id assigned before, deleted rows included, and leaves
\* the rows already queued as they were; count() is the number of rows
\* enqueued and not yet deleted.
StillQueued(i) == insOrder[i] \in Ids(rows)

C35_EnqueueFrame ==
  [][/\ \A s \in Sessions, b \in Bodies :
          QEnqueue(s, NULL, b) =>
            \E r \in rows' :
              /\ r \notin rows
              /\ rows' = rows \cup {r}
              /\ r.id \notin Ids(rows)
              /\ \A i \in 1..Len(insOrder) : r.id > insOrder[i]
              /\ r = [id |-> r.id, sessionId |-> s, threadId |-> NULL, webhookBody |-> b,
                      createdAt |-> now, retryCount |-> 0, lastError |-> NoError]
              /\ count(rows') = count(rows) + 1
     /\ count(rows') = Cardinality({i \in 1..Len(insOrder') : StillQueued(i)'})
     /\ \A q1 \in rows', q2 \in rows' : q1.id = q2.id => q1 = q2]_vars

C35_Witness ==
  /\ Len(insOrder) = 3
  /\ count(rows) = 2
  /\ 1 \in Ids(rows)
  /\ 2 \notin Ids(rows)
  /\ 3 \in Ids(rows)
  /\ RowOf(rows, 1).retryCount = 2
  /\ RowOf(rows, 3).retryCount = 0
  /\ RowOf(rows, 3).lastError = NoError

\* C36: delete(id) removes the row with that id and updateRetryCount(id, n, e)
\* overwrites retryCount and lastError of the row with that id; both leave
\* every other row, and the order of the rows that remain, as they were, and
\* change nothing when no row has that id.
SameOrder(before, after) ==
  \A a \in Ids(after), b \in Ids(after) :
    a # b => (RowBefore(RowOf(after, a), RowOf(after, b))
                <=> RowBefore(RowOf(before, a), RowOf(before, b)))

C36_RowLocal ==
  [][/\ \A id \in 1..MaxQMsgs :
          QDelete(id) =>
            /\ rows' = {r \in rows : r.id # id}
            /\ id \notin Ids(rows) => rows' = rows
            /\ SameOrder(rows, rows')
     /\ \A id \in 1..MaxQMsgs, n \in RetryCountsQ, e \in ErrorsQ :
          QUpdateRetryCount(id, n, e) =>
            /\ Ids(rows') = Ids(rows)
            /\ count(rows') = count(rows)
            /\ \A r \in rows :
                 IF r.id = id
                 THEN [r EXCEPT !.retryCount = n, !.lastError = e] \in rows'
                 ELSE r \in rows'
            /\ id \notin Ids(rows) => rows' = rows
            /\ SameOrder(rows, rows')]_vars

C36_Witness ==
  /\ count(rows) = 2
  /\ nextId = 4
  /\ \E r \in rows, o \in rows :
       /\ r.retryCount = 2
       /\ r.lastError = "error"
       /\ o.retryCount = 0
       /\ o.lastError = NoError
       /\ o.createdAt < r.createdAt

\* C37: whenever sessionToThread holds a thread for a session, no queued row of
\* that session has a null threadId, and every queued row of the session that
\* was enqueued by the running process carries that thread.
ThisLifetime(r) == r.id >= lifeFirstId

C37_MapAndStoreAgree ==
  \A s \in Sessions :
    sessionToThread[s] # NULL =>
      \A r \in rows :
        r.sessionId = s =>
          /\ r.threadId # NULL
          /\ ThisLifetime(r) => r.threadId = sessionToThread[s]

C37_Witness ==
  /\ crashes >= 1
  /\ lifeFirstId = 2
  /\ \E s \in Sessions, new \in rows :
       /\ sessionToThread[s] # NULL
       /\ new.sessionId = s
       /\ ThisLifetime(new)
       /\ new.threadId = sessionToThread[s]
       /\ hist[1] = Gone("success")

\* C38: whenever the queue holds a row, the worker is Running or a handler that
\* enqueued a row has not yet returned and has its startWorkerIfNeeded call
\* still before it.
HandlerBeforeStart == pendingStart > 0 \/ awaitingFallback # 0

C38_NoStrandedMessage == rows # {} => isRunning \/ HandlerBeforeStart

\* C39: every queued row has a retryCount from 0 to MAX_RETRIES, and its
\* lastError is non-null exactly when its retryCount is above 0.
C39_RetryCountBounded ==
  \A r \in rows :
    /\ 0 <= r.retryCount
    /\ r.retryCount <= MAX_RETRIES
    /\ r.lastError # NoError <=> r.retryCount > 0

C39_Witness ==
  /\ crashes >= 1
  /\ \E r \in rows, q \in rows :
       /\ r.retryCount = MAX_RETRIES
       /\ r.lastError = "error"
       /\ hist[r.id].fails >= 1
       /\ q.retryCount = 0
       /\ q.lastError = NoError
====
